---- MODULE Spec2Model ----
(***************************************************************************)
(* Brake actuator firmware (left_brake.c, controller.c, can.c).            *)
(*                                                                         *)
(* The actuator state machine of left_brake.c is modelled as a state       *)
(* machine over its file-scope variables and app_state; every public       *)
(* function is one atomic action (all of them run on the polling loop).    *)
(* The ADC, the millisecond tick and the bus are the environment: a sample *)
(* is an input of the action that reads it, the tick advances by steps.    *)
(***************************************************************************)
EXTENDS Integers, Sequences, FiniteSets, TLC

(* ------------------------------------------------------------------ *)
(* Program constants                                                   *)
(* ------------------------------------------------------------------ *)
POSITION_RELEASED == 200
POSITION_PUSHED == 3800
POSITION_TOLERANCE == 100
MOTOR_DUTY_PUSH == 80
MOTOR_DUTY_RELEASE == 80
ESTIMATED_PUSH_TIME_MS == 2000
ESTIMATED_RELEASE_TIME_MS == 2000
POSITION_TIMEOUT_MS == 5000
MIN_VALID_POSITION == 50
MAX_VALID_POSITION == 4000
MAX_POSITION_ERRORS == 10

BRAKE_STATE_RELEASED == 0
BRAKE_STATE_RELEASING == 1
BRAKE_STATE_PUSHED == 2
BRAKE_STATE_PUSHING == 3
BRAKE_STATE_STOPPED == 4

(* Values of the generated codec's choices, as the driver's interface      *)
(* documents them.                                                         *)
AUTOMATE_LEFT_BRAKE_CMD_BRAKE_STATE_PUSH_CHOICE == 0
AUTOMATE_LEFT_BRAKE_CMD_BRAKE_STATE_RELEASE_CHOICE == 1

GPIO_PIN_RESET == 0
GPIO_PIN_SET == 1

(* controller.c *)
NODE_ID_MCU == 240
NODE_ID_PC == 16
HEARTBEAT_INTERVAL_MS == 50
TELEMETRY_INTERVAL_MS == 100
STATUS_LED_BLINK_PERIOD_MS == 500
WATCHDOG_TIMEOUT_MS == 200
INIT_PERIOD_MS == 1000

(* Values of the codec's health choices, as controller.h documents them *)
AUTOMATE_HEART_BEAT_MSG_HEALTH_OFF_CHOICE == 0
AUTOMATE_HEART_BEAT_MSG_HEALTH_ON_CHOICE == 1
AUTOMATE_HEART_BEAT_MSG_HEALTH_INIT_CHOICE == 2
AUTOMATE_HEART_BEAT_MSG_HEALTH_WARNING_CHOICE == 3
AUTOMATE_HEART_BEAT_MSG_HEALTH_FAILURE_CHOICE == 4
AUTOMATE_HEART_BEAT_MSG_HEALTH_CRITICAL_FAILURE_CHOICE == 5

(* can.c: ring buffer sizes *)
CAN_RX_BUFFER_SIZE == 8
CAN_TX_BUFFER_SIZE == 8

(* Widths of the C integer types involved.  A uint32_t value is held as   *)
(* the 32-bit pattern read as a signed number (the checker's integers are *)
(* 32 bits wide): 0 .. 2^31-1 stand for themselves, a negative number n   *)
(* stands for 2^32 + n.  Sums, differences and products are then the C    *)
(* ones as long as no signed overflow occurs, and an unsigned comparison  *)
(* is U32Less.                                                            *)
U8 == 2^8
U16 == 2^16

U32Less(a, b) == IF (a < 0) = (b < 0) THEN a < b ELSE b < 0

(* ------------------------------------------------------------------ *)
(* Bounds of the model                                                 *)
(* ------------------------------------------------------------------ *)
(* The tick is not advanced beyond MaxTick. *)
MaxTick == 5001
(* An invalid sample is fed only while the error counter is below this. *)
MaxErrorRun == 11

(* Frames that arrive from the bus, and frames handed to CAN_Driver_Send *)
MaxRxMsgs == 9
MaxTxMsgs == 9
(* Calls of CAN_Driver_Transmit in which the peripheral refuses a frame *)
MaxHwFailures == 1

(* Frames that arrive from the bus while Business_Loop is observed *)
MaxLoopFrames == 2

(* Consecutive invalid samples fed while a failing sensor is observed *)
MaxFaultRun == 256

(* The tick is not advanced beyond MaxOpTick while an operation is timed, *)
(* and not more than MaxUpdateInterval beyond the last call of Brake_Update *)
MaxOpTick == 10001
MaxUpdateInterval == 2500

(* Amounts by which the tick advances between two calls: the operation   *)
(* timeout and one tick more                                              *)
TickSteps == {POSITION_TIMEOUT_MS, POSITION_TIMEOUT_MS + 1}

(* ADC readings fed to the driver: both sides of every threshold *)
Samples == {49, 50, 300, 301, 3699, 3700, 4000, 4001}
(* HAL_ADC_PollForConversion did not return HAL_OK *)
ADC_TIMEOUT == -1
AdcInputs == Samples \cup {ADC_TIMEOUT}

(* brake_state bytes of a command: the two choices and out-of-range ones *)
CmdValues == {0, 1, 5}

(* Number of frames the peripheral's TX FIFO takes during one call of      *)
(* CAN_Driver_Transmit before HAL_FDCAN_AddMessageToTxFifoQ fails          *)
HwAccepts == 0..CAN_TX_BUFFER_SIZE

(* Instants at which the controller is observed: around the watchdog       *)
(* timeout after a peer heartbeat at 0, 250 or about 1000, and around the  *)
(* end of the initialisation period                                        *)
CtlInstants == {199, 200, 201, 250, 251, 450, 451, 1000, 1001, 1201, 1202}
(* Samples read while the controller is observed: an invalid and a valid one *)
CtlSamples == {49, 300}
(* Node_id fields of received heartbeats: the peer's and this node's own echo *)
HeartbeatNodes == {NODE_ID_PC, NODE_ID_MCU}
(* MSG_Count field of the heartbeats received while the health is observed *)
HeartbeatCounts == {1}
(* Node_id and MSG_Count fields of the heartbeats dispatched one by one:   *)
(* the peer's origin, this node's own echo and a third origin              *)
DispatchNodes == {NODE_ID_PC, NODE_ID_MCU, 0}
DispatchCounts == {1, 2}
(* Instants at which a frame is dispatched: within the initialisation      *)
(* period, after it, and later still                                       *)
DispatchInstants == {200, 1001, 1300}
(* Arguments of Controller_SetHealth: the six choices and a value beyond *)
HealthInputs == 0..6

(* Valid samples stored before the position is read out as a percentage:  *)
(* the ends of the scale and, for every percent value, the first, second   *)
(* and last position that yield it                                         *)
PercentSamples ==
    {p \in MIN_VALID_POSITION..MAX_VALID_POSITION :
        \/ (p - POSITION_RELEASED) % ((POSITION_PUSHED - POSITION_RELEASED) \div 100)
               \in {0, 1, ((POSITION_PUSHED - POSITION_RELEASED) \div 100) - 1}
        \/ p \in {MIN_VALID_POSITION, MAX_VALID_POSITION}}

(* Instants at which Business_Loop is observed: at the heartbeat period,   *)
(* one tick before and at the telemetry period (49 ticks after a heartbeat *)
(* sent at 50), and after the initialisation period                        *)
LoopInstants == {50, 99, 100, 1001, 1051}
(* Frames received while Business_Loop is observed: their identifier and   *)
(* the field the dispatch looks at (Node_id of a heartbeat, brake_state of *)
(* a command), and the MSG_Count of a heartbeat                            *)
LoopFrames ==
    {[id |-> "Heart_Beat_MSG", field |-> NODE_ID_PC, msg_count |-> 1],
     [id |-> "Left_Brake_CMD", field |-> AUTOMATE_LEFT_BRAKE_CMD_BRAKE_STATE_PUSH_CHOICE,
      msg_count |-> 0],
     [id |-> "Left_Brake_CMD", field |-> AUTOMATE_LEFT_BRAKE_CMD_BRAKE_STATE_RELEASE_CHOICE,
      msg_count |-> 0],
     [id |-> "unknown", field |-> 0, msg_count |-> 0]}
(* Positions stored at boot while Business_Loop is observed: a conversion  *)
(* that timed out and a pushed brake                                       *)
LoopBootPositions == {0, 3700}
(* Instants at which an operation is observed: an early one, the          *)
(* operation timeout after a start at 0 and one tick more, the same after  *)
(* a start at 5000 or 5001, and the instants half-way                      *)
OpInstants == {100, 2500, 5000, 5001, 7500, 10000, 10001}
(* Valid samples stored while an operation is timed: both sides of the two *)
(* target thresholds                                                       *)
OpSamples == {300, 301, 3699, 3700}
(* Positions stored at boot while an operation is timed: a released and a  *)
(* pushed brake                                                            *)
OpBootPositions == {300, 3700}
(* brake_state bytes of the commands given while an operation is timed *)
OpCommands == {AUTOMATE_LEFT_BRAKE_CMD_BRAKE_STATE_PUSH_CHOICE,
               AUTOMATE_LEFT_BRAKE_CMD_BRAKE_STATE_RELEASE_CHOICE}
(* Readings of a sensor that has failed: below and above the valid range *)
FaultSamples == {49, 4001}
(* Positions stored at boot, before the sensor fails *)
FaultBootPositions == {300, 3700}
(* brake_state bytes of the commands given while the sensor fails *)
FaultCommands == {AUTOMATE_LEFT_BRAKE_CMD_BRAKE_STATE_PUSH_CHOICE}
(* len arguments of CAN_Driver_Send: a valid one and one above 8 *)
SendLens == {8, 9}

VARIABLES
    state,                        \* app_state.state
    target_position,              \* app_state.target_position
    app_current_position,         \* app_state.current_position
    current_position,             \* static current_position
    operation_start_tick,         \* static operation_start_tick
    estimated_operation_time_ms,  \* static estimated_operation_time_ms
    position_error_count,         \* static position_error_count (uint8_t)
    motor_pwm,                    \* duty written by Motor_SetPWM
    motor_inh,                    \* level of the MOTOR_INH pin
    tick,                         \* HAL_GetTick()
    last_op,                      \* history: the call made last, its command byte and result
    prev_state,                   \* history: app_state.state before that call
    fault_stop,                   \* history: STOPPED was forced by invalid samples and held since, no recovery
    can_rx_buffer,                \* static can_rx_buffer: [buffer, head, tail, count]
    can_tx_buffer,                \* static can_tx_buffer
    get_pc,                       \* where the polling loop stands inside RingBuffer_Get(&can_rx_buffer)
    get_msg,                      \* the *msg that call has read
    rx_seq,                       \* frames received so far; a frame is identified by its number
    tx_seq,                       \* messages built by CAN_Driver_Send so far, identified likewise
    rx_pending,                   \* history: frames whose inbound enqueue succeeded, not yet dequeued
    tx_pending,                   \* history: messages accepted by CAN_Driver_Send, not yet taken by the peripheral, in the order accepted
    hw_sent,                      \* history: messages the peripheral took during the call made last
    hw_failed,                    \* history: message the peripheral refused during that call, 0 if none
    hw_failures,                  \* history: number of calls in which the peripheral refused a frame
    node_health,                  \* static node_health
    last_pc_heartbeat_tick,       \* static last_pc_heartbeat_tick
    pc_heartbeat_msg_count,       \* static pc_heartbeat_msg_count
    pc_heartbeat_received,        \* static pc_heartbeat_received
    prev_health,                  \* history: node_health before the call made last
    heartbeat_msg_count,          \* static heartbeat_msg_count
    telemetry_msg_id,             \* static telemetry_msg_id (uint8_t)
    last_heartbeat_tick,          \* static last_heartbeat_tick
    last_telemetry_tick,          \* static last_telemetry_tick
    last_led_toggle_tick,         \* static last_led_toggle_tick
    led_state,                    \* static led_state, the level of the STATUS_LED pin
    rx_frames,                    \* the content of the frames in the inbound queue: frame number k carries rx_frames[k]
    last_heartbeat,               \* history: the heartbeat built last, <<>> before the first
    last_telemetry,               \* history: the telemetry message built last, <<>> before the first
    heartbeat_sent,               \* history: the call made last handed a heartbeat to CAN_Driver_Send
    telemetry_sent,               \* history: the call made last handed a telemetry message to CAN_Driver_Send
    heartbeat_counts,             \* history: the msg_count values of all heartbeats built so far
    driven_since,                 \* history: the tick since which the state is PUSHING/RELEASING with the motor driven, 0 otherwise
    reported,                     \* history: the time-to-end read last during the present operation at the present position with the tick of the read, <<>> if none
    invalid_run,                  \* history: the number of samples Brake_UpdatePosition rejected since the last one it stored
    last_update_tick              \* history: the tick of the last call of Brake_Update, 0 before the first

brake_vars == <<state, target_position, app_current_position, current_position,
                operation_start_tick, estimated_operation_time_ms,
                position_error_count, motor_pwm, motor_inh>>
vars == <<state, target_position, app_current_position, current_position,
          operation_start_tick, estimated_operation_time_ms,
          position_error_count, motor_pwm, motor_inh, tick, last_op,
          prev_state, fault_stop,
          can_rx_buffer, can_tx_buffer, get_pc, get_msg, rx_seq, tx_seq,
          rx_pending, tx_pending, hw_sent, hw_failed, hw_failures,
          node_health, last_pc_heartbeat_tick, pc_heartbeat_msg_count,
          pc_heartbeat_received, prev_health,
          heartbeat_msg_count, telemetry_msg_id, last_heartbeat_tick,
          last_telemetry_tick, last_led_toggle_tick, led_state, rx_frames,
          last_heartbeat, last_telemetry, heartbeat_sent, telemetry_sent,
          heartbeat_counts, driven_since, reported, invalid_run, last_update_tick>>
ctl_vars == <<node_health, last_pc_heartbeat_tick, pc_heartbeat_msg_count,
              pc_heartbeat_received, prev_health>>
can_vars == <<can_rx_buffer, can_tx_buffer, get_pc, get_msg, rx_seq, tx_seq,
              rx_pending, tx_pending, hw_sent, hw_failed, hw_failures>>

send_vars == <<heartbeat_msg_count, telemetry_msg_id, last_heartbeat_tick,
               last_telemetry_tick, last_heartbeat, last_telemetry, heartbeat_sent,
               telemetry_sent, heartbeat_counts>>
led_vars == <<last_led_toggle_tick, led_state>>
loop_vars == <<send_vars, led_vars, rx_frames>>
obs_vars == <<driven_since, reported, invalid_run, last_update_tick>>

Op(name, arg, ret) == [op |-> name, arg |-> arg, ret |-> ret]

(* ------------------------------------------------------------------ *)
(* Private functions of left_brake.c                                   *)
(* ------------------------------------------------------------------ *)
IsPositionValid(position) ==
    position >= MIN_VALID_POSITION /\ position <= MAX_VALID_POSITION

(* The value ADC_ReadPosition returns: the conversion result, or the last  *)
(* known position when the conversion timed out.                           *)
ADC_ReadPosition(adc, cur) == IF adc = ADC_TIMEOUT THEN cur ELSE adc

(* HAL_GetTick() - operation_start_tick in uint32_t arithmetic *)
Elapsed(now, start) == now - start

(* Position classification shared by Brake_Init and Brake_ClearError *)
ClassifyState(pos) ==
    IF pos <= POSITION_RELEASED + POSITION_TOLERANCE THEN BRAKE_STATE_RELEASED
    ELSE IF pos >= POSITION_PUSHED - POSITION_TOLERANCE THEN BRAKE_STATE_PUSHED
    ELSE BRAKE_STATE_RELEASED

ClassifyTarget(pos) ==
    IF pos <= POSITION_RELEASED + POSITION_TOLERANCE THEN POSITION_RELEASED
    ELSE IF pos >= POSITION_PUSHED - POSITION_TOLERANCE THEN POSITION_PUSHED
    ELSE POSITION_RELEASED

(* UpdateOperationEstimate: the new estimated_operation_time_ms, called in *)
(* state st (PUSHING or RELEASING) with the stored position pos.           *)
UpdateOperationEstimate(st, pos, now, start, est) ==
    LET elapsed == Elapsed(now, start)
        start_pos == IF st = BRAKE_STATE_PUSHING THEN POSITION_RELEASED ELSE POSITION_PUSHED
        target_pos == IF st = BRAKE_STATE_PUSHING THEN POSITION_PUSHED ELSE POSITION_RELEASED
        distance_total == target_pos - start_pos
        distance_remaining == target_pos - pos
        distance_traveled == distance_total - distance_remaining
    IN  IF st # BRAKE_STATE_PUSHING /\ st # BRAKE_STATE_RELEASING THEN 0
        ELSE IF distance_total = 0 THEN 0
        ELSE IF U32Less(0, elapsed)
             THEN IF distance_traveled > 0
                  THEN (elapsed \div distance_traveled) * distance_remaining
                  ELSE IF st = BRAKE_STATE_PUSHING THEN ESTIMATED_PUSH_TIME_MS
                       ELSE ESTIMATED_RELEASE_TIME_MS
             ELSE est

(* ------------------------------------------------------------------ *)
(* Initial state: CAN_Driver_Init(); Brake_Init() at boot              *)
(* ------------------------------------------------------------------ *)
(* A ring buffer after memset(.., 0, ..) *)
ClearedRingBuffer(size) ==
    [buffer |-> [i \in 0..(size - 1) |-> 0], head |-> 0, tail |-> 0, count |-> 0]

CAN_Driver_Init ==
    /\ can_rx_buffer = ClearedRingBuffer(CAN_RX_BUFFER_SIZE)
    /\ can_tx_buffer = ClearedRingBuffer(CAN_TX_BUFFER_SIZE)
    /\ get_pc = "idle"
    /\ get_msg = 0
    /\ rx_seq = 0
    /\ tx_seq = 0
    /\ rx_pending = <<>>
    /\ tx_pending = <<>>
    /\ hw_sent = <<>>
    /\ hw_failed = 0
    /\ hw_failures = 0

Brake_Init ==
    \E adc \in AdcInputs :
        LET pos == ADC_ReadPosition(adc, 0) IN
        /\ current_position = pos
        /\ app_current_position = 0
        /\ operation_start_tick = 0
        /\ estimated_operation_time_ms = ESTIMATED_PUSH_TIME_MS
        /\ position_error_count = 0
        /\ motor_pwm = 0
        /\ motor_inh = GPIO_PIN_RESET
        /\ state = ClassifyState(pos)
        /\ target_position = ClassifyTarget(pos)
        /\ last_op = Op("Brake_Init", 0, TRUE)
        /\ prev_state = ClassifyState(pos)

Controller_Init ==
    /\ node_health = AUTOMATE_HEART_BEAT_MSG_HEALTH_INIT_CHOICE
    /\ last_pc_heartbeat_tick = 0
    /\ pc_heartbeat_msg_count = 0
    /\ pc_heartbeat_received = FALSE
    /\ prev_health = AUTOMATE_HEART_BEAT_MSG_HEALTH_INIT_CHOICE
    /\ heartbeat_msg_count = 0
    /\ telemetry_msg_id = 0
    /\ last_heartbeat_tick = tick
    /\ last_telemetry_tick = tick
    /\ last_led_toggle_tick = tick
    /\ led_state = FALSE
    /\ rx_frames = <<>>
    /\ last_heartbeat = <<>>
    /\ last_telemetry = <<>>
    /\ heartbeat_sent = FALSE
    /\ telemetry_sent = FALSE
    /\ heartbeat_counts = {}

Init ==
    /\ tick = 0
    /\ fault_stop = FALSE
    /\ CAN_Driver_Init
    /\ Brake_Init
    /\ Controller_Init
    /\ driven_since = 0
    /\ reported = <<>>
    /\ invalid_run = 0
    /\ last_update_tick = 0

(* ------------------------------------------------------------------ *)
(* Public functions of left_brake.c                                    *)
(* ------------------------------------------------------------------ *)

(* Variant of UpdatePositionResult: the threshold compared with > *)
UpdatePositionResult_LateStop(adc, st, cur, app, cnt, pwm, inh) ==
    LET new_position == ADC_ReadPosition(adc, cur) IN
    IF new_position >= MIN_VALID_POSITION /\ new_position <= MAX_VALID_POSITION
    THEN [st |-> st, cur |-> new_position, app |-> new_position, cnt |-> 0,
          pwm |-> pwm, inh |-> inh]
    ELSE LET c == (cnt + 1) % U8 IN
         IF c > MAX_POSITION_ERRORS
         THEN [st |-> BRAKE_STATE_STOPPED, cur |-> cur, app |-> app, cnt |-> c,
               pwm |-> 0, inh |-> GPIO_PIN_RESET]
         ELSE [st |-> st, cur |-> cur, app |-> app, cnt |-> c,
               pwm |-> pwm, inh |-> inh]

(* The body of Brake_UpdatePosition on the values it reads and writes:     *)
(* st = app_state.state, cur = current_position, app = app_state.current_  *)
(* position, cnt = position_error_count, pwm/inh = the motor outputs.      *)
UpdatePositionResult(adc, st, cur, app, cnt, pwm, inh) ==
    LET new_position == ADC_ReadPosition(adc, cur) IN
    IF IsPositionValid(new_position)
    THEN [st |-> st, cur |-> new_position, app |-> new_position, cnt |-> 0,
          pwm |-> pwm, inh |-> inh]
    ELSE LET c == (cnt + 1) % U8 IN
         IF c >= MAX_POSITION_ERRORS
         THEN [st |-> BRAKE_STATE_STOPPED, cur |-> cur, app |-> app, cnt |-> c,
               pwm |-> 0, inh |-> GPIO_PIN_RESET]
         ELSE [st |-> st, cur |-> cur, app |-> app, cnt |-> c,
               pwm |-> pwm, inh |-> inh]

Brake_UpdatePosition(adc) ==
    LET r == UpdatePositionResult(adc, state, current_position, app_current_position,
                                  position_error_count, motor_pwm, motor_inh) IN
    /\ state' = r.st
    /\ current_position' = r.cur
    /\ app_current_position' = r.app
    /\ position_error_count' = r.cnt
    /\ motor_pwm' = r.pwm
    /\ motor_inh' = r.inh
    /\ last_op' = Op("Brake_UpdatePosition", 0, TRUE)
    /\ prev_state' = state
    /\ fault_stop' = (fault_stop \/ (r.st = BRAKE_STATE_STOPPED /\ r.cnt >= MAX_POSITION_ERRORS))
    /\ UNCHANGED <<target_position, operation_start_tick, estimated_operation_time_ms, tick>>


(* Variant of ProcessCommandResult: a push is restarted while PUSHING *)
ProcessCommandResult_Restart(brake_state, st, tgt, start, est, cnt, now) ==
    IF st = BRAKE_STATE_STOPPED /\ cnt >= MAX_POSITION_ERRORS
    THEN [st |-> st, tgt |-> tgt, start |-> start, est |-> est]
    ELSE IF brake_state = AUTOMATE_LEFT_BRAKE_CMD_BRAKE_STATE_PUSH_CHOICE
    THEN IF st # BRAKE_STATE_PUSHED
         THEN [st |-> BRAKE_STATE_PUSHING, tgt |-> POSITION_PUSHED, start |-> now,
               est |-> ESTIMATED_PUSH_TIME_MS]
         ELSE [st |-> st, tgt |-> tgt, start |-> start, est |-> est]
    ELSE IF brake_state = AUTOMATE_LEFT_BRAKE_CMD_BRAKE_STATE_RELEASE_CHOICE
    THEN IF st # BRAKE_STATE_RELEASING /\ st # BRAKE_STATE_RELEASED
         THEN [st |-> BRAKE_STATE_RELEASING, tgt |-> POSITION_RELEASED, start |-> now,
               est |-> ESTIMATED_RELEASE_TIME_MS]
         ELSE [st |-> st, tgt |-> tgt, start |-> start, est |-> est]
    ELSE [st |-> st, tgt |-> tgt, start |-> start, est |-> est]

(* Variant of ProcessCommandResult: every byte other than the push choice *)
(* is taken as a release                                                  *)
ProcessCommandResult_ElseRelease(brake_state, st, tgt, start, est, cnt, now) ==
    IF st = BRAKE_STATE_STOPPED /\ cnt >= MAX_POSITION_ERRORS
    THEN [st |-> st, tgt |-> tgt, start |-> start, est |-> est]
    ELSE IF brake_state = AUTOMATE_LEFT_BRAKE_CMD_BRAKE_STATE_PUSH_CHOICE
    THEN IF st # BRAKE_STATE_PUSHING /\ st # BRAKE_STATE_PUSHED
         THEN [st |-> BRAKE_STATE_PUSHING, tgt |-> POSITION_PUSHED, start |-> now,
               est |-> ESTIMATED_PUSH_TIME_MS]
         ELSE [st |-> st, tgt |-> tgt, start |-> start, est |-> est]
    ELSE IF st # BRAKE_STATE_RELEASING /\ st # BRAKE_STATE_RELEASED
         THEN [st |-> BRAKE_STATE_RELEASING, tgt |-> POSITION_RELEASED, start |-> now,
               est |-> ESTIMATED_RELEASE_TIME_MS]
         ELSE [st |-> st, tgt |-> tgt, start |-> start, est |-> est]

(* The body of Brake_ProcessCommand on the values it reads and writes *)
ProcessCommandResult(brake_state, st, tgt, start, est, cnt, now) ==
    IF st = BRAKE_STATE_STOPPED /\ cnt >= MAX_POSITION_ERRORS
    THEN [st |-> st, tgt |-> tgt, start |-> start, est |-> est]
    ELSE IF brake_state = AUTOMATE_LEFT_BRAKE_CMD_BRAKE_STATE_PUSH_CHOICE
    THEN IF st # BRAKE_STATE_PUSHING /\ st # BRAKE_STATE_PUSHED
         THEN [st |-> BRAKE_STATE_PUSHING, tgt |-> POSITION_PUSHED, start |-> now,
               est |-> ESTIMATED_PUSH_TIME_MS]
         ELSE [st |-> st, tgt |-> tgt, start |-> start, est |-> est]
    ELSE IF brake_state = AUTOMATE_LEFT_BRAKE_CMD_BRAKE_STATE_RELEASE_CHOICE
    THEN IF st # BRAKE_STATE_RELEASING /\ st # BRAKE_STATE_RELEASED
         THEN [st |-> BRAKE_STATE_RELEASING, tgt |-> POSITION_RELEASED, start |-> now,
               est |-> ESTIMATED_RELEASE_TIME_MS]
         ELSE [st |-> st, tgt |-> tgt, start |-> start, est |-> est]
    ELSE [st |-> st, tgt |-> tgt, start |-> start, est |-> est]

(* Brake_ProcessCommand called with the byte brake_state *)
Brake_ProcessCommand(brake_state) ==
    LET r == ProcessCommandResult(brake_state, state, target_position, operation_start_tick,
                                  estimated_operation_time_ms, position_error_count, tick) IN
    /\ state' = r.st
    /\ target_position' = r.tgt
    /\ operation_start_tick' = r.start
    /\ estimated_operation_time_ms' = r.est
    /\ last_op' = Op("Brake_ProcessCommand", brake_state, TRUE)
    /\ prev_state' = state
    /\ fault_stop' = (fault_stop /\ r.st = BRAKE_STATE_STOPPED)
    /\ UNCHANGED <<app_current_position, current_position, position_error_count,
                   motor_pwm, motor_inh, tick>>

(* automate_left_brake_cmd_brake_state_is_in_range of the generated codec *)
brake_state_is_in_range(value) == value <= 1

(* ProcessReceivedMessage, case AUTOMATE_LEFT_BRAKE_CMD_FRAME_ID, for one  *)
(* received command frame that unpacks to brake_state.                     *)
DispatchCommand(brake_state) ==
    LET r == IF brake_state_is_in_range(brake_state)
             THEN ProcessCommandResult(brake_state, state, target_position,
                                       operation_start_tick, estimated_operation_time_ms,
                                       position_error_count, tick)
             ELSE [st |-> state, tgt |-> target_position, start |-> operation_start_tick,
                   est |-> estimated_operation_time_ms] IN
    /\ state' = r.st
    /\ target_position' = r.tgt
    /\ operation_start_tick' = r.start
    /\ estimated_operation_time_ms' = r.est
    /\ last_op' = Op("Left_Brake_CMD", brake_state, TRUE)
    /\ prev_state' = state
    /\ fault_stop' = (fault_stop /\ r.st = BRAKE_STATE_STOPPED)
    /\ UNCHANGED <<app_current_position, current_position, position_error_count,
                   motor_pwm, motor_inh, tick>>

(* Variant of OperationTimedOut: the timeout compared with >= *)
OperationTimedOut_Early(st, now, start) ==
    /\ st = BRAKE_STATE_PUSHING \/ st = BRAKE_STATE_RELEASING
    /\ ~U32Less(Elapsed(now, start), POSITION_TIMEOUT_MS)

(* Variant of OperationTimedOut: only a push times out *)
OperationTimedOut_PushOnly(st, now, start) ==
    /\ st = BRAKE_STATE_PUSHING
    /\ U32Less(POSITION_TIMEOUT_MS, Elapsed(now, start))

(* The timeout test that opens Brake_Update *)
OperationTimedOut(st, now, start) ==
    /\ st = BRAKE_STATE_PUSHING \/ st = BRAKE_STATE_RELEASING
    /\ U32Less(POSITION_TIMEOUT_MS, Elapsed(now, start))

(* Variant of PushTargetReached: the target compared with > *)
PushTargetReached_Strict(pos) == pos > POSITION_PUSHED - POSITION_TOLERANCE

(* The target tests of Brake_Update's PUSHING and RELEASING cases *)
PushTargetReached(pos) == pos >= POSITION_PUSHED - POSITION_TOLERANCE
ReleaseTargetReached(pos) == pos <= POSITION_RELEASED + POSITION_TOLERANCE

(* Variant of Brake_Update: Motor_Stop() is not called in the RELEASED,    *)
(* PUSHED and STOPPED cases                                                *)
Brake_Update_NoStopAtRest ==
    /\ IF OperationTimedOut(state, tick, operation_start_tick)
       THEN /\ state' = BRAKE_STATE_STOPPED
            /\ motor_pwm' = 0
            /\ motor_inh' = GPIO_PIN_RESET
            /\ UNCHANGED estimated_operation_time_ms
       ELSE IF state = BRAKE_STATE_PUSHING
       THEN /\ estimated_operation_time_ms' =
                   UpdateOperationEstimate(state, current_position, tick,
                                           operation_start_tick, estimated_operation_time_ms)
            /\ IF PushTargetReached(current_position)
               THEN /\ state' = BRAKE_STATE_PUSHED
                    /\ motor_pwm' = 0
                    /\ motor_inh' = GPIO_PIN_RESET
               ELSE /\ state' = state
                    /\ motor_inh' = GPIO_PIN_SET
                    /\ motor_pwm' = MOTOR_DUTY_PUSH
       ELSE IF state = BRAKE_STATE_RELEASING
       THEN /\ estimated_operation_time_ms' =
                   UpdateOperationEstimate(state, current_position, tick,
                                           operation_start_tick, estimated_operation_time_ms)
            /\ IF ReleaseTargetReached(current_position)
               THEN /\ state' = BRAKE_STATE_RELEASED
                    /\ motor_pwm' = 0
                    /\ motor_inh' = GPIO_PIN_RESET
               ELSE /\ state' = state
                    /\ motor_inh' = GPIO_PIN_RESET
                    /\ motor_pwm' = MOTOR_DUTY_RELEASE
       ELSE /\ state' = state
            /\ UNCHANGED <<motor_pwm, motor_inh>>
            /\ estimated_operation_time_ms' = 0
    /\ last_op' = Op("Brake_Update", 0, TRUE)
    /\ prev_state' = state
    /\ UNCHANGED <<target_position, app_current_position, current_position,
                   operation_start_tick, position_error_count, tick, fault_stop>>

Brake_Update ==
    /\ IF OperationTimedOut(state, tick, operation_start_tick)
       THEN /\ state' = BRAKE_STATE_STOPPED
            /\ motor_pwm' = 0
            /\ motor_inh' = GPIO_PIN_RESET
            /\ UNCHANGED estimated_operation_time_ms
       ELSE IF state = BRAKE_STATE_PUSHING
       THEN /\ estimated_operation_time_ms' =
                   UpdateOperationEstimate(state, current_position, tick,
                                           operation_start_tick, estimated_operation_time_ms)
            /\ IF PushTargetReached(current_position)
               THEN /\ state' = BRAKE_STATE_PUSHED
                    /\ motor_pwm' = 0
                    /\ motor_inh' = GPIO_PIN_RESET
               ELSE /\ state' = state
                    /\ motor_inh' = GPIO_PIN_SET
                    /\ motor_pwm' = MOTOR_DUTY_PUSH
       ELSE IF state = BRAKE_STATE_RELEASING
       THEN /\ estimated_operation_time_ms' =
                   UpdateOperationEstimate(state, current_position, tick,
                                           operation_start_tick, estimated_operation_time_ms)
            /\ IF ReleaseTargetReached(current_position)
               THEN /\ state' = BRAKE_STATE_RELEASED
                    /\ motor_pwm' = 0
                    /\ motor_inh' = GPIO_PIN_RESET
               ELSE /\ state' = state
                    /\ motor_inh' = GPIO_PIN_RESET
                    /\ motor_pwm' = MOTOR_DUTY_RELEASE
       ELSE /\ state' = state
            /\ motor_pwm' = 0
            /\ motor_inh' = GPIO_PIN_RESET
            /\ estimated_operation_time_ms' = 0
    /\ last_op' = Op("Brake_Update", 0, TRUE)
    /\ prev_state' = state
    /\ UNCHANGED <<target_position, app_current_position, current_position,
                   operation_start_tick, position_error_count, tick, fault_stop>>

(* Variant of Brake_EmergencyStop: Motor_Stop() is not called *)
Brake_EmergencyStop_NoMotorStop ==
    /\ state' = BRAKE_STATE_STOPPED
    /\ last_op' = Op("Brake_EmergencyStop", 0, TRUE)
    /\ prev_state' = state
    /\ UNCHANGED <<target_position, app_current_position, current_position,
                   operation_start_tick, estimated_operation_time_ms,
                   position_error_count, motor_pwm, motor_inh, tick, fault_stop>>

Brake_EmergencyStop ==
    /\ motor_pwm' = 0
    /\ motor_inh' = GPIO_PIN_RESET
    /\ state' = BRAKE_STATE_STOPPED
    /\ last_op' = Op("Brake_EmergencyStop", 0, TRUE)
    /\ prev_state' = state
    /\ UNCHANGED <<target_position, app_current_position, current_position,
                   operation_start_tick, estimated_operation_time_ms,
                   position_error_count, tick, fault_stop>>

(* Brake_ClearError: clears the counter, calls Brake_UpdatePosition, then  *)
(* classifies the stored position if that one is valid.                    *)
Brake_ClearError(adc) ==
    LET r == UpdatePositionResult(adc, state, current_position, app_current_position,
                                  0, motor_pwm, motor_inh)
        ok == IsPositionValid(r.cur) IN
    /\ current_position' = r.cur
    /\ app_current_position' = r.app
    /\ position_error_count' = r.cnt
    /\ motor_pwm' = r.pwm
    /\ motor_inh' = r.inh
    /\ state' = IF ok THEN ClassifyState(r.cur) ELSE r.st
    /\ target_position' = IF ok THEN ClassifyTarget(r.cur) ELSE target_position
    /\ last_op' = Op("Brake_ClearError", 0, ok)
    /\ prev_state' = state
    /\ fault_stop' = FALSE
    /\ UNCHANGED <<operation_start_tick, estimated_operation_time_ms, tick>>

(* Brake_HasError: the value returned for the counter cnt *)
Brake_HasError(cnt) == cnt >= MAX_POSITION_ERRORS

(* Brake_GetTimeToEnd: the uint16_t returned in state st at tick now, for  *)
(* the stored operation_start_tick and estimated_operation_time_ms         *)
Brake_GetTimeToEnd(st, now, start, est) ==
    LET elapsed == Elapsed(now, start) IN
    IF (st = BRAKE_STATE_PUSHING \/ st = BRAKE_STATE_RELEASING) /\ U32Less(elapsed, est)
    THEN (est - elapsed) % U16
    ELSE 0

(* Variant of PositionPercent: no clamp at POSITION_PUSHED *)
PositionPercent_NoUpperClamp(pos) ==
    IF pos <= POSITION_RELEASED THEN 0
    ELSE (((pos - POSITION_RELEASED) * 100) \div (POSITION_PUSHED - POSITION_RELEASED)) % U8

(* Brake_GetPositionPercent: the uint8_t returned for the stored position *)
PositionPercent(pos) ==
    IF pos <= POSITION_RELEASED THEN 0
    ELSE IF pos >= POSITION_PUSHED THEN 100
    ELSE LET range == POSITION_PUSHED - POSITION_RELEASED
             offset == pos - POSITION_RELEASED
         IN  ((offset * 100) \div range) % U8

Brake_GetPositionPercent ==
    /\ last_op' = Op("Brake_GetPositionPercent", current_position,
                     PositionPercent(current_position))
    /\ prev_state' = state
    /\ UNCHANGED <<brake_vars, tick, fault_stop>>

(* Variant of TelemetryFlags: STOPPED is reported as released *)
TelemetryFlags_StoppedAsReleased(st) ==
    [brake_releasing |-> IF st = BRAKE_STATE_RELEASING THEN 1 ELSE 0,
     brake_released |-> IF st = BRAKE_STATE_RELEASED \/ st = BRAKE_STATE_STOPPED THEN 1 ELSE 0,
     brake_pushing |-> IF st = BRAKE_STATE_PUSHING THEN 1 ELSE 0,
     brake_pushed |-> IF st = BRAKE_STATE_PUSHED THEN 1 ELSE 0]

(* SendTelemetry: the four state flags put into Left_Brake_MSG *)
TelemetryFlags(st) ==
    [brake_releasing |-> IF st = BRAKE_STATE_RELEASING THEN 1 ELSE 0,
     brake_released |-> IF st = BRAKE_STATE_RELEASED THEN 1 ELSE 0,
     brake_pushing |-> IF st = BRAKE_STATE_PUSHING THEN 1 ELSE 0,
     brake_pushed |-> IF st = BRAKE_STATE_PUSHED THEN 1 ELSE 0]

(* The millisecond tick advances between two calls *)
HAL_IncTick(d) ==
    /\ tick + d <= MaxTick
    /\ tick' = tick + d
    /\ last_op' = Op("HAL_IncTick", 0, TRUE)
    /\ prev_state' = state
    /\ UNCHANGED <<brake_vars, fault_stop>>

(* ------------------------------------------------------------------ *)
(* can.c: ring buffers                                                 *)
(* ------------------------------------------------------------------ *)
(* Variant of RingBuffer_IsFull: full only above buffer_size *)
RingBuffer_IsFull_Late(b, buffer_size) == b.count > buffer_size

RingBuffer_IsFull(b, buffer_size) == b.count >= buffer_size
RingBuffer_IsEmpty(b) == b.count = 0

(* Variant of RingBuffer_Put: head advances without the wrap-around *)
RingBuffer_Put_NoWrap(b, msg, buffer_size) ==
    IF b.count >= buffer_size THEN b
    ELSE [buffer |-> [i \in DOMAIN b.buffer \cup {b.head} |->
                         IF i = b.head THEN msg ELSE b.buffer[i]],
          head |-> b.head + 1,
          tail |-> b.tail,
          count |-> (b.count + 1) % U8]

(* RingBuffer_Put: the buffer after the call; the call returns            *)
(* ~RingBuffer_IsFull(b, buffer_size)                                     *)
RingBuffer_Put(b, msg, buffer_size) ==
    IF RingBuffer_IsFull(b, buffer_size) THEN b
    ELSE [buffer |-> [b.buffer EXCEPT ![b.head] = msg],
          head |-> (b.head + 1) % buffer_size,
          tail |-> b.tail,
          count |-> (b.count + 1) % U8]

(* RingBuffer_Get on a non-empty buffer: the message copied out and the   *)
(* buffer after the call                                                  *)
(* Variant of RingBuffer_Front: the slot written last is copied out *)
RingBuffer_Front_Newest(b) == b.buffer[(b.head + 7) % 8]

RingBuffer_Front(b) == b.buffer[b.tail]
RingBuffer_Get(b, buffer_size) ==
    IF RingBuffer_IsEmpty(b) THEN b
    ELSE [buffer |-> b.buffer,
          head |-> b.head,
          tail |-> (b.tail + 1) % buffer_size,
          count |-> (b.count - 1) % U8]

(* The messages a buffer holds, oldest first *)
Stored(b, buffer_size) ==
    [i \in 1..b.count |-> b.buffer[(b.tail + i - 1) % buffer_size]]

(* Variant of CAN_Driver_RxCallback: the frame is stored without the full  *)
(* check                                                                   *)
CAN_Driver_RxCallback_Overwrite(msg) ==
    /\ msg = rx_seq + 1
    /\ rx_seq' = msg
    /\ can_rx_buffer' =
           [buffer |-> [can_rx_buffer.buffer EXCEPT ![can_rx_buffer.head] = msg],
            head |-> (can_rx_buffer.head + 1) % CAN_RX_BUFFER_SIZE,
            tail |-> can_rx_buffer.tail,
            count |-> IF can_rx_buffer.count >= CAN_RX_BUFFER_SIZE
                      THEN can_rx_buffer.count ELSE can_rx_buffer.count + 1]
    /\ rx_pending' = IF can_rx_buffer.count >= CAN_RX_BUFFER_SIZE
                     THEN rx_pending ELSE Append(rx_pending, msg)
    /\ last_op' = Op("CAN_Driver_RxCallback", msg, can_rx_buffer.count < CAN_RX_BUFFER_SIZE)
    /\ prev_state' = state
    /\ hw_sent' = <<>>
    /\ hw_failed' = 0
    /\ UNCHANGED <<can_tx_buffer, get_pc, get_msg, tx_seq, tx_pending, hw_failures>>

(* CAN_Driver_RxCallback, run by the receive interrupt for the frame msg:  *)
(* it preempts the polling loop wherever that one stands.                  *)
CAN_Driver_RxCallback(msg) ==
    LET ok == ~RingBuffer_IsFull(can_rx_buffer, CAN_RX_BUFFER_SIZE) IN
    /\ msg = rx_seq + 1
    /\ rx_seq' = msg
    /\ can_rx_buffer' = RingBuffer_Put(can_rx_buffer, msg, CAN_RX_BUFFER_SIZE)
    /\ rx_pending' = IF ok THEN Append(rx_pending, msg) ELSE rx_pending
    /\ last_op' = Op("CAN_Driver_RxCallback", msg, ok)
    /\ prev_state' = state
    /\ hw_sent' = <<>>
    /\ hw_failed' = 0
    /\ UNCHANGED hw_failures
    /\ UNCHANGED <<can_tx_buffer, get_pc, get_msg, tx_seq, tx_pending>>

(* CAN_Driver_Get(&msg) on the polling loop, statement by statement of     *)
(* RingBuffer_Get: the empty check, ...                                    *)
Get_CheckEmpty ==
    /\ get_pc = "idle"
    /\ IF RingBuffer_IsEmpty(can_rx_buffer)
       THEN /\ last_op' = Op("CAN_Driver_Get", 0, FALSE)
            /\ UNCHANGED get_pc
       ELSE /\ get_pc' = "read"
            /\ last_op' = Op("RingBuffer_Get", 0, TRUE)
    /\ prev_state' = state
    /\ hw_sent' = <<>>
    /\ hw_failed' = 0
    /\ UNCHANGED hw_failures
    /\ UNCHANGED <<can_rx_buffer, can_tx_buffer, get_msg, rx_seq, tx_seq,
                   rx_pending, tx_pending>>

(* ... the copy of the slot at tail, ... *)
Get_ReadSlot ==
    /\ get_pc = "read"
    /\ get_msg' = RingBuffer_Front(can_rx_buffer)
    /\ get_pc' = "advance"
    /\ UNCHANGED <<can_rx_buffer, can_tx_buffer, rx_seq, tx_seq, rx_pending,
                   tx_pending, hw_sent, hw_failed, hw_failures, last_op, prev_state>>

(* ... the advance of tail, ... *)
Get_AdvanceTail ==
    /\ get_pc = "advance"
    /\ can_rx_buffer' = [can_rx_buffer EXCEPT !.tail = (@ + 1) % CAN_RX_BUFFER_SIZE]
    /\ get_pc' = "decrement"
    /\ UNCHANGED <<can_tx_buffer, get_msg, rx_seq, tx_seq, rx_pending,
                   tx_pending, hw_sent, hw_failed, hw_failures, last_op, prev_state>>

(* ... and count-- with interrupts disabled, then return true *)
Get_Decrement ==
    /\ get_pc = "decrement"
    /\ can_rx_buffer' = [can_rx_buffer EXCEPT !.count = (@ - 1) % U8]
    /\ get_pc' = "idle"
    /\ rx_pending' = IF rx_pending = <<>> THEN <<>> ELSE Tail(rx_pending)
    /\ last_op' = Op("CAN_Driver_Get", get_msg, TRUE)
    /\ prev_state' = state
    /\ UNCHANGED <<can_tx_buffer, get_msg, rx_seq, tx_seq, tx_pending,
                   hw_sent, hw_failed, hw_failures>>

CAN_Driver_ClearRxBuffer ==
    /\ get_pc = "idle"
    /\ can_rx_buffer' = [can_rx_buffer EXCEPT !.head = 0, !.tail = 0, !.count = 0]
    /\ rx_pending' = <<>>
    /\ last_op' = Op("CAN_Driver_ClearRxBuffer", 0, TRUE)
    /\ prev_state' = state
    /\ hw_sent' = <<>>
    /\ hw_failed' = 0
    /\ UNCHANGED hw_failures
    /\ UNCHANGED <<can_tx_buffer, get_pc, get_msg, rx_seq, tx_seq, tx_pending>>

(* CAN_Driver_Send for the message msg with a non-NULL data and length len *)
CAN_Driver_Send(msg, len) ==
    LET ok == len <= 8 /\ ~RingBuffer_IsFull(can_tx_buffer, CAN_TX_BUFFER_SIZE) IN
    /\ get_pc = "idle"
    /\ msg = tx_seq + 1
    /\ IF len > 8
       THEN UNCHANGED <<can_tx_buffer, tx_seq>>
       ELSE /\ can_tx_buffer' = RingBuffer_Put(can_tx_buffer, msg, CAN_TX_BUFFER_SIZE)
            /\ tx_seq' = msg
    /\ tx_pending' = IF ok THEN Append(tx_pending, msg) ELSE tx_pending
    /\ last_op' = Op("CAN_Driver_Send", msg, ok)
    /\ prev_state' = state
    /\ hw_sent' = <<>>
    /\ hw_failed' = 0
    /\ UNCHANGED hw_failures
    /\ UNCHANGED <<can_rx_buffer, get_pc, get_msg, rx_seq, rx_pending>>

(* Variant of TransmitLoop: the refused message is not put back *)
RECURSIVE TransmitLoop_DropFailed(_, _, _)
TransmitLoop_DropFailed(b, free, sent) ==
    IF RingBuffer_IsEmpty(b)
    THEN [buf |-> b, sent |-> sent, failed |-> 0]
    ELSE LET msg == RingBuffer_Front(b)
             got == RingBuffer_Get(b, CAN_TX_BUFFER_SIZE) IN
         IF free = 0
         THEN [buf |-> got, sent |-> sent, failed |-> msg]
         ELSE TransmitLoop_DropFailed(got, free - 1, Append(sent, msg))

(* Variant of TransmitLoop: the loop goes on after a refused message *)
RECURSIVE TransmitLoop_PastFailure(_, _, _)
TransmitLoop_PastFailure(b, free, sent) ==
    IF RingBuffer_IsEmpty(b)
    THEN [buf |-> b, sent |-> sent, failed |-> 0]
    ELSE LET msg == RingBuffer_Front(b)
             got == RingBuffer_Get(b, CAN_TX_BUFFER_SIZE) IN
         IF free = 0
         THEN LET rest == TransmitLoop_PastFailure(got, CAN_TX_BUFFER_SIZE, sent) IN
              [buf |-> RingBuffer_Put(rest.buf, msg, CAN_TX_BUFFER_SIZE),
               sent |-> rest.sent, failed |-> msg]
         ELSE TransmitLoop_PastFailure(got, free - 1, Append(sent, msg))

(* The loop of CAN_Driver_Transmit on the buffer b while the peripheral    *)
(* takes `free` more frames: the buffer left, the messages taken and the   *)
(* message refused (0 if none).                                            *)
RECURSIVE TransmitLoop(_, _, _)
TransmitLoop(b, free, sent) ==
    IF RingBuffer_IsEmpty(b)
    THEN [buf |-> b, sent |-> sent, failed |-> 0]
    ELSE LET msg == RingBuffer_Front(b)
             got == RingBuffer_Get(b, CAN_TX_BUFFER_SIZE) IN
         IF free = 0
         THEN [buf |-> RingBuffer_Put(got, msg, CAN_TX_BUFFER_SIZE),
               sent |-> sent, failed |-> msg]
         ELSE TransmitLoop(got, free - 1, Append(sent, msg))

CAN_Driver_Transmit(free) ==
    LET r == TransmitLoop(can_tx_buffer, free, <<>>) IN
    /\ get_pc = "idle"
    /\ can_tx_buffer' = r.buf
    /\ hw_sent' = r.sent
    /\ hw_failed' = r.failed
    /\ r.failed # 0 => hw_failures < MaxHwFailures
    /\ hw_failures' = IF r.failed # 0 THEN hw_failures + 1 ELSE hw_failures
    /\ tx_pending' = SelectSeq(tx_pending,
                               LAMBDA m : \A i \in 1..Len(r.sent) : r.sent[i] # m)
    /\ last_op' = Op("CAN_Driver_Transmit", 0, TRUE)
    /\ prev_state' = state
    /\ UNCHANGED <<can_rx_buffer, get_pc, get_msg, rx_seq, tx_seq, rx_pending>>

CAN_Driver_ClearTxBuffer ==
    /\ get_pc = "idle"
    /\ can_tx_buffer' = [can_tx_buffer EXCEPT !.head = 0, !.tail = 0, !.count = 0]
    /\ tx_pending' = <<>>
    /\ last_op' = Op("CAN_Driver_ClearTxBuffer", 0, TRUE)
    /\ prev_state' = state
    /\ hw_sent' = <<>>
    /\ hw_failed' = 0
    /\ UNCHANGED hw_failures
    /\ UNCHANGED <<can_rx_buffer, get_pc, get_msg, rx_seq, tx_seq, rx_pending>>

(* ------------------------------------------------------------------ *)
(* controller.c: peer heartbeat and node health                        *)
(* ------------------------------------------------------------------ *)

(* ProcessReceivedMessage, case AUTOMATE_HEART_BEAT_MSG_FRAME_ID, for one  *)
(* received heartbeat that unpacks with the Node_id field node.            *)
(* Variant of ProcessHeartbeat: the Node_id field is not looked at *)
ProcessHeartbeat_AnyNode(node, msg_count) ==
    /\ last_pc_heartbeat_tick' = tick
    /\ pc_heartbeat_msg_count' = msg_count
    /\ pc_heartbeat_received' = TRUE
    /\ last_op' = Op("Heart_Beat_MSG", node, TRUE)
    /\ prev_state' = state
    /\ prev_health' = node_health
    /\ UNCHANGED node_health

ProcessHeartbeat(node, msg_count) ==
    /\ IF node = NODE_ID_PC
       THEN /\ last_pc_heartbeat_tick' = tick
            /\ pc_heartbeat_msg_count' = msg_count
            /\ pc_heartbeat_received' = TRUE
       ELSE UNCHANGED <<last_pc_heartbeat_tick, pc_heartbeat_msg_count, pc_heartbeat_received>>
    /\ last_op' = Op("Heart_Beat_MSG", node, TRUE)
    /\ prev_state' = state
    /\ prev_health' = node_health
    /\ UNCHANGED node_health

(* Variant of HealthAfterUpdate: the watchdog timeout compared with >= *)
HealthAfterUpdate_Early(health, received, last, now, has_error) ==
    LET h1 == IF received
              THEN IF ~U32Less(now - last, WATCHDOG_TIMEOUT_MS)
                   THEN IF health = AUTOMATE_HEART_BEAT_MSG_HEALTH_ON_CHOICE
                        THEN AUTOMATE_HEART_BEAT_MSG_HEALTH_WARNING_CHOICE ELSE health
                   ELSE IF health = AUTOMATE_HEART_BEAT_MSG_HEALTH_WARNING_CHOICE
                        THEN AUTOMATE_HEART_BEAT_MSG_HEALTH_ON_CHOICE ELSE health
              ELSE health
        h2 == IF h1 = AUTOMATE_HEART_BEAT_MSG_HEALTH_INIT_CHOICE /\ U32Less(INIT_PERIOD_MS, now)
              THEN AUTOMATE_HEART_BEAT_MSG_HEALTH_ON_CHOICE ELSE h1
    IN  IF has_error /\ h2 < AUTOMATE_HEART_BEAT_MSG_HEALTH_FAILURE_CHOICE
        THEN AUTOMATE_HEART_BEAT_MSG_HEALTH_FAILURE_CHOICE ELSE h2

(* Variant of HealthAfterUpdate: WARNING is not taken back *)
HealthAfterUpdate_NoRestore(health, received, last, now, has_error) ==
    LET h1 == IF received /\ U32Less(WATCHDOG_TIMEOUT_MS, now - last)
                 /\ health = AUTOMATE_HEART_BEAT_MSG_HEALTH_ON_CHOICE
              THEN AUTOMATE_HEART_BEAT_MSG_HEALTH_WARNING_CHOICE ELSE health
        h2 == IF h1 = AUTOMATE_HEART_BEAT_MSG_HEALTH_INIT_CHOICE /\ U32Less(INIT_PERIOD_MS, now)
              THEN AUTOMATE_HEART_BEAT_MSG_HEALTH_ON_CHOICE ELSE h1
    IN  IF has_error /\ h2 < AUTOMATE_HEART_BEAT_MSG_HEALTH_FAILURE_CHOICE
        THEN AUTOMATE_HEART_BEAT_MSG_HEALTH_FAILURE_CHOICE ELSE h2

(* Variant of HealthAfterUpdate: the initialisation period compared with >= *)
HealthAfterUpdate_InitEarly(health, received, last, now, has_error) ==
    LET h1 == IF received
              THEN IF U32Less(WATCHDOG_TIMEOUT_MS, now - last)
                   THEN IF health = AUTOMATE_HEART_BEAT_MSG_HEALTH_ON_CHOICE
                        THEN AUTOMATE_HEART_BEAT_MSG_HEALTH_WARNING_CHOICE ELSE health
                   ELSE IF health = AUTOMATE_HEART_BEAT_MSG_HEALTH_WARNING_CHOICE
                        THEN AUTOMATE_HEART_BEAT_MSG_HEALTH_ON_CHOICE ELSE health
              ELSE health
        h2 == IF h1 = AUTOMATE_HEART_BEAT_MSG_HEALTH_INIT_CHOICE /\ ~U32Less(now, INIT_PERIOD_MS)
              THEN AUTOMATE_HEART_BEAT_MSG_HEALTH_ON_CHOICE ELSE h1
    IN  IF has_error /\ h2 < AUTOMATE_HEART_BEAT_MSG_HEALTH_FAILURE_CHOICE
        THEN AUTOMATE_HEART_BEAT_MSG_HEALTH_FAILURE_CHOICE ELSE h2

(* Variant of HealthAfterUpdate: a brake error escalates from ON only *)
HealthAfterUpdate_OnlyFromOn(health, received, last, now, has_error) ==
    LET h1 == IF received
              THEN IF U32Less(WATCHDOG_TIMEOUT_MS, now - last)
                   THEN IF health = AUTOMATE_HEART_BEAT_MSG_HEALTH_ON_CHOICE
                        THEN AUTOMATE_HEART_BEAT_MSG_HEALTH_WARNING_CHOICE ELSE health
                   ELSE IF health = AUTOMATE_HEART_BEAT_MSG_HEALTH_WARNING_CHOICE
                        THEN AUTOMATE_HEART_BEAT_MSG_HEALTH_ON_CHOICE ELSE health
              ELSE health
        h2 == IF h1 = AUTOMATE_HEART_BEAT_MSG_HEALTH_INIT_CHOICE /\ U32Less(INIT_PERIOD_MS, now)
              THEN AUTOMATE_HEART_BEAT_MSG_HEALTH_ON_CHOICE ELSE h1
    IN  IF has_error /\ h2 = AUTOMATE_HEART_BEAT_MSG_HEALTH_ON_CHOICE
        THEN AUTOMATE_HEART_BEAT_MSG_HEALTH_FAILURE_CHOICE ELSE h2

(* Variant of HealthAfterUpdate: FAILURE is taken back to ON once the      *)
(* brake reports no error                                                  *)
HealthAfterUpdate_FailureRecovers(health, received, last, now, has_error) ==
    LET h0 == IF health = AUTOMATE_HEART_BEAT_MSG_HEALTH_FAILURE_CHOICE /\ ~has_error
              THEN AUTOMATE_HEART_BEAT_MSG_HEALTH_ON_CHOICE ELSE health
        h1 == IF received
              THEN IF U32Less(WATCHDOG_TIMEOUT_MS, now - last)
                   THEN IF h0 = AUTOMATE_HEART_BEAT_MSG_HEALTH_ON_CHOICE
                        THEN AUTOMATE_HEART_BEAT_MSG_HEALTH_WARNING_CHOICE ELSE h0
                   ELSE IF h0 = AUTOMATE_HEART_BEAT_MSG_HEALTH_WARNING_CHOICE
                        THEN AUTOMATE_HEART_BEAT_MSG_HEALTH_ON_CHOICE ELSE h0
              ELSE h0
        h2 == IF h1 = AUTOMATE_HEART_BEAT_MSG_HEALTH_INIT_CHOICE /\ U32Less(INIT_PERIOD_MS, now)
              THEN AUTOMATE_HEART_BEAT_MSG_HEALTH_ON_CHOICE ELSE h1
    IN  IF has_error /\ h2 < AUTOMATE_HEART_BEAT_MSG_HEALTH_FAILURE_CHOICE
        THEN AUTOMATE_HEART_BEAT_MSG_HEALTH_FAILURE_CHOICE ELSE h2

(* The body of UpdateSystemHealth: node_health after the call, from        *)
(* node_health, pc_heartbeat_received, last_pc_heartbeat_tick,             *)
(* HAL_GetTick() and Brake_HasError() before it.                           *)
HealthAfterUpdate(health, received, last, now, has_error) ==
    LET h1 == IF received
              THEN IF U32Less(WATCHDOG_TIMEOUT_MS, now - last)
                   THEN IF health = AUTOMATE_HEART_BEAT_MSG_HEALTH_ON_CHOICE
                        THEN AUTOMATE_HEART_BEAT_MSG_HEALTH_WARNING_CHOICE ELSE health
                   ELSE IF health = AUTOMATE_HEART_BEAT_MSG_HEALTH_WARNING_CHOICE
                        THEN AUTOMATE_HEART_BEAT_MSG_HEALTH_ON_CHOICE ELSE health
              ELSE health
        h2 == IF h1 = AUTOMATE_HEART_BEAT_MSG_HEALTH_INIT_CHOICE /\ U32Less(INIT_PERIOD_MS, now)
              THEN AUTOMATE_HEART_BEAT_MSG_HEALTH_ON_CHOICE ELSE h1
    IN  IF has_error /\ h2 < AUTOMATE_HEART_BEAT_MSG_HEALTH_FAILURE_CHOICE
        THEN AUTOMATE_HEART_BEAT_MSG_HEALTH_FAILURE_CHOICE ELSE h2

UpdateSystemHealth ==
    /\ node_health' = HealthAfterUpdate(node_health, pc_heartbeat_received,
                                        last_pc_heartbeat_tick, tick,
                                        Brake_HasError(position_error_count))
    /\ last_op' = Op("UpdateSystemHealth", 0, TRUE)
    /\ prev_state' = state
    /\ prev_health' = node_health
    /\ UNCHANGED <<last_pc_heartbeat_tick, pc_heartbeat_msg_count, pc_heartbeat_received>>

(* automate_heart_beat_msg_health_is_in_range of the generated codec *)
health_is_in_range(value) == value <= 5

(* Variant of Controller_SetHealth: the value is stored without the range  *)
(* check                                                                   *)
Controller_SetHealth_Unchecked(health) ==
    /\ node_health' = health
    /\ last_op' = Op("Controller_SetHealth", health, TRUE)
    /\ prev_state' = state
    /\ prev_health' = node_health
    /\ UNCHANGED <<last_pc_heartbeat_tick, pc_heartbeat_msg_count, pc_heartbeat_received>>

Controller_SetHealth(health) ==
    /\ node_health' = IF health_is_in_range(health) THEN health ELSE node_health
    /\ last_op' = Op("Controller_SetHealth", health, TRUE)
    /\ prev_state' = state
    /\ prev_health' = node_health
    /\ UNCHANGED <<last_pc_heartbeat_tick, pc_heartbeat_msg_count, pc_heartbeat_received>>

(* ------------------------------------------------------------------ *)
(* controller.c: Business_Loop                                         *)
(* ------------------------------------------------------------------ *)

(* The body of the loop of ProcessReceivedMessage for the frame f, on the  *)
(* values it reads and writes: a = [st, tgt, start, est] of the actuator   *)
(* and [last_pc, count, received] of the peer monitoring.                  *)
ProcessFrame(f, a, cnt, now) ==
    IF f.id = "Heart_Beat_MSG"
    THEN IF f.field = NODE_ID_PC
         THEN [a EXCEPT !.last_pc = now, !.count = f.msg_count, !.received = TRUE]
         ELSE a
    ELSE IF f.id = "Left_Brake_CMD"
    THEN IF brake_state_is_in_range(f.field)
         THEN LET r == ProcessCommandResult(f.field, a.st, a.tgt, a.start, a.est, cnt, now)
              IN  [a EXCEPT !.st = r.st, !.tgt = r.tgt, !.start = r.start, !.est = r.est]
         ELSE a
    ELSE a

(* ProcessReceivedMessage: while (CAN_Driver_Get(&msg)) dispatch msg, on   *)
(* the inbound buffer b whose slots hold frame numbers of `frames`         *)
RECURSIVE ProcessReceivedMessage(_, _, _, _, _)
ProcessReceivedMessage(b, frames, a, cnt, now) ==
    IF RingBuffer_IsEmpty(b)
    THEN [buf |-> b, a |-> a]
    ELSE ProcessReceivedMessage(RingBuffer_Get(b, CAN_RX_BUFFER_SIZE), frames,
                                ProcessFrame(frames[RingBuffer_Front(b)], a, cnt, now),
                                cnt, now)

(* Variant of HeartbeatDue: the period compared with > *)
HeartbeatDue_Late(now, last) == U32Less(HEARTBEAT_INTERVAL_MS, now - last)

(* The two period tests of Business_Loop *)
HeartbeatDue(now, last) == ~U32Less(now - last, HEARTBEAT_INTERVAL_MS)
TelemetryDue(now, last) == ~U32Less(now - last, TELEMETRY_INTERVAL_MS)

(* Variant of HeartbeatMsg: msg_count is left as automate_heart_beat_msg_init set it *)
HeartbeatMsg_ZeroCount(count, health, now) ==
    [node_id |-> NODE_ID_MCU, msg_count |-> 0, health |-> health, stamp |-> now % U16]

(* SendHeartbeat: the message handed to the codec and to CAN_Driver_Send *)
HeartbeatMsg(count, health, now) ==
    [node_id |-> NODE_ID_MCU, msg_count |-> count, health |-> health, stamp |-> now % U16]

(* SendTelemetry: the message handed to the codec and to CAN_Driver_Send *)
TelemetryMsg(id, st, now, start, est) ==
    [msg_id |-> id,
     stamp |-> now % U16,
     brake_releasing |-> TelemetryFlags(st).brake_releasing,
     brake_released |-> TelemetryFlags(st).brake_released,
     brake_pushing |-> TelemetryFlags(st).brake_pushing,
     brake_pushed |-> TelemetryFlags(st).brake_pushed,
     time_to_end_operation |-> Brake_GetTimeToEnd(st, now, start, est)]

(* CAN_Driver_Send for an 8-byte message, on the values it reads and       *)
(* writes: t = [buf, seq, pending] of the outbound side                    *)
SendQueued(t) ==
    LET msg == t.seq + 1 IN
    [buf |-> RingBuffer_Put(t.buf, msg, CAN_TX_BUFFER_SIZE),
     seq |-> msg,
     pending |-> IF RingBuffer_IsFull(t.buf, CAN_TX_BUFFER_SIZE)
                 THEN t.pending ELSE Append(t.pending, msg)]

(* UpdateStatusLED: led_state and last_led_toggle_tick after the call *)
LedAfterUpdate(st, led, toggle, now) ==
    IF st = BRAKE_STATE_RELEASED THEN [led |-> FALSE, toggle |-> toggle]
    ELSE IF st = BRAKE_STATE_PUSHED THEN [led |-> TRUE, toggle |-> toggle]
    ELSE IF st = BRAKE_STATE_RELEASING \/ st = BRAKE_STATE_PUSHING
    THEN IF ~U32Less(now - toggle, STATUS_LED_BLINK_PERIOD_MS)
         THEN [led |-> ~led, toggle |-> now]
         ELSE [led |-> led, toggle |-> toggle]
    ELSE IF st = BRAKE_STATE_STOPPED
    THEN IF ~U32Less(now - toggle, STATUS_LED_BLINK_PERIOD_MS \div 4)
         THEN [led |-> ~led, toggle |-> now]
         ELSE [led |-> led, toggle |-> toggle]
    ELSE [led |-> led, toggle |-> toggle]

(* Business_Loop, one call on the polling loop: ProcessReceivedMessage,    *)
(* the periodic heartbeat and telemetry, UpdateSystemHealth and            *)
(* UpdateStatusLED.                                                        *)
Business_Loop ==
    LET current_tick == tick
        rcv == ProcessReceivedMessage(can_rx_buffer, rx_frames,
                   [st |-> state, tgt |-> target_position, start |-> operation_start_tick,
                    est |-> estimated_operation_time_ms,
                    last_pc |-> last_pc_heartbeat_tick, count |-> pc_heartbeat_msg_count,
                    received |-> pc_heartbeat_received],
                   position_error_count, tick)
        a == rcv.a
        hb_due == HeartbeatDue(current_tick, last_heartbeat_tick)
        tel_due == TelemetryDue(current_tick, last_telemetry_tick)
        hb == HeartbeatMsg(heartbeat_msg_count, node_health, tick)
        tel == TelemetryMsg(telemetry_msg_id, a.st, tick, a.start, a.est)
        t0 == [buf |-> can_tx_buffer, seq |-> tx_seq, pending |-> tx_pending]
        t1 == IF hb_due THEN SendQueued(t0) ELSE t0
        t2 == IF tel_due THEN SendQueued(t1) ELSE t1
        led == LedAfterUpdate(a.st, led_state, last_led_toggle_tick, tick)
    IN
    /\ get_pc = "idle"
    (* ProcessReceivedMessage *)
    /\ can_rx_buffer' = rcv.buf
    /\ rx_pending' = <<>>
    /\ get_msg' = IF RingBuffer_IsEmpty(can_rx_buffer) THEN get_msg
                  ELSE can_rx_buffer.buffer[(can_rx_buffer.head + CAN_RX_BUFFER_SIZE - 1)
                                               % CAN_RX_BUFFER_SIZE]
    /\ state' = a.st
    /\ target_position' = a.tgt
    /\ operation_start_tick' = a.start
    /\ estimated_operation_time_ms' = a.est
    /\ last_pc_heartbeat_tick' = a.last_pc
    /\ pc_heartbeat_msg_count' = a.count
    /\ pc_heartbeat_received' = a.received
    (* SendHeartbeat *)
    /\ heartbeat_sent' = hb_due
    /\ heartbeat_msg_count' = IF hb_due THEN heartbeat_msg_count + 1 ELSE heartbeat_msg_count
    /\ last_heartbeat' = IF hb_due THEN <<hb>> ELSE last_heartbeat
    /\ heartbeat_counts' = IF hb_due THEN heartbeat_counts \cup {hb.msg_count}
                           ELSE heartbeat_counts
    /\ last_heartbeat_tick' = IF hb_due THEN current_tick ELSE last_heartbeat_tick
    (* SendTelemetry *)
    /\ telemetry_sent' = tel_due
    /\ telemetry_msg_id' = IF tel_due THEN (telemetry_msg_id + 1) % U8 ELSE telemetry_msg_id
    /\ last_telemetry' = IF tel_due THEN <<tel>> ELSE last_telemetry
    /\ last_telemetry_tick' = IF tel_due THEN current_tick ELSE last_telemetry_tick
    /\ can_tx_buffer' = t2.buf
    /\ tx_seq' = t2.seq
    /\ tx_pending' = t2.pending
    (* UpdateSystemHealth *)
    /\ node_health' = HealthAfterUpdate(node_health, a.received, a.last_pc, tick,
                                        Brake_HasError(position_error_count))
    (* UpdateStatusLED *)
    /\ led_state' = led.led
    /\ last_led_toggle_tick' = led.toggle
    /\ last_op' = Op("Business_Loop", 0, TRUE)
    /\ prev_state' = state
    /\ prev_health' = node_health
    /\ fault_stop' = (fault_stop /\ a.st = BRAKE_STATE_STOPPED)
    /\ hw_sent' = <<>>
    /\ hw_failed' = 0
    /\ UNCHANGED <<app_current_position, current_position, position_error_count,
                   motor_pwm, motor_inh, tick, rx_seq, hw_failures, get_pc, obs_vars>>
    /\ rx_frames' = <<>>

(* ------------------------------------------------------------------ *)
(* Specification                                                       *)
(* ------------------------------------------------------------------ *)
(* An invalid sample is fed only while the error counter is below MaxErrorRun *)
RunBounded(adc) ==
    \/ IsPositionValid(ADC_ReadPosition(adc, current_position))
    \/ position_error_count < MaxErrorRun

UpdatePosition == \E adc \in AdcInputs : RunBounded(adc) /\ Brake_UpdatePosition(adc)
ProcessCommand == \E c \in CmdValues : Brake_ProcessCommand(c)
ReceiveCommand == \E c \in CmdValues : DispatchCommand(c)
ClearError == \E adc \in AdcInputs : Brake_ClearError(adc)
AdvanceTick == \E d \in TickSteps : HAL_IncTick(d)

Next ==
    \/ UpdatePosition /\ UNCHANGED <<can_vars, ctl_vars, loop_vars, obs_vars>>
    \/ ProcessCommand /\ UNCHANGED <<can_vars, ctl_vars, loop_vars, obs_vars>>
    \/ ReceiveCommand /\ UNCHANGED <<can_vars, ctl_vars, loop_vars, obs_vars>>
    \/ Brake_Update /\ UNCHANGED <<can_vars, ctl_vars, loop_vars, obs_vars>>
    \/ Brake_EmergencyStop /\ UNCHANGED <<can_vars, ctl_vars, loop_vars, obs_vars>>
    \/ ClearError /\ UNCHANGED <<can_vars, ctl_vars, loop_vars, obs_vars>>
    \/ AdvanceTick /\ UNCHANGED <<can_vars, ctl_vars, loop_vars, obs_vars>>

Spec == Init /\ [][Next]_vars

(* The CAN driver alone: the receive interrupt, the polling loop's         *)
(* CAN_Driver_Get, CAN_Driver_Send and CAN_Driver_Transmit, and the two    *)
(* clear functions.  The actuator is left alone, in the state it boots to  *)
(* when the first conversion times out.  The two ring buffers share no     *)
(* state, and a run carries traffic in one direction only: frames arrive   *)
(* while nothing has been sent, messages are sent while none has arrived.  *)
ReceiveFrame == \E msg \in 1..MaxRxMsgs : CAN_Driver_RxCallback(msg)
Send == \E msg \in 1..MaxTxMsgs, len \in SendLens : CAN_Driver_Send(msg, len)
Transmit == \E free \in HwAccepts : CAN_Driver_Transmit(free)
actuator_vars == <<brake_vars, tick, fault_stop>>

CanInit == Init /\ current_position = 0

CanNext ==
    \/ ReceiveFrame /\ tx_seq = 0 /\ UNCHANGED <<actuator_vars, ctl_vars, loop_vars, obs_vars>>
    \/ Get_CheckEmpty /\ tx_seq = 0 /\ UNCHANGED <<actuator_vars, ctl_vars, loop_vars, obs_vars>>
    \/ Get_ReadSlot /\ UNCHANGED <<actuator_vars, ctl_vars, loop_vars, obs_vars>>
    \/ Get_AdvanceTail /\ UNCHANGED <<actuator_vars, ctl_vars, loop_vars, obs_vars>>
    \/ Get_Decrement /\ UNCHANGED <<actuator_vars, ctl_vars, loop_vars, obs_vars>>
    \/ CAN_Driver_ClearRxBuffer /\ tx_seq = 0 /\ UNCHANGED <<actuator_vars, ctl_vars, loop_vars, obs_vars>>
    \/ Send /\ rx_seq = 0 /\ UNCHANGED <<actuator_vars, ctl_vars, loop_vars, obs_vars>>
    \/ Transmit /\ rx_seq = 0 /\ UNCHANGED <<actuator_vars, ctl_vars, loop_vars, obs_vars>>
    \/ CAN_Driver_ClearTxBuffer /\ rx_seq = 0 /\ UNCHANGED <<actuator_vars, ctl_vars, loop_vars, obs_vars>>

CanSpec == CanInit /\ [][CanNext]_vars

(* The controller's health monitoring: received heartbeats, the health     *)
(* evaluation of Business_Loop, Controller_SetHealth, the position         *)
(* sampling that drives Brake_HasError, and the tick moving on to the next *)
(* instant of observation, and the recovery Brake_ClearError.  The CAN     *)
(* driver is left alone.                                                   *)
ReceiveHeartbeat ==
    \E node \in HeartbeatNodes, c \in HeartbeatCounts : ProcessHeartbeat(node, c)
SetHealth == \E health \in HealthInputs : Controller_SetHealth(health)
SamplePosition == \E adc \in CtlSamples : RunBounded(adc) /\ Brake_UpdatePosition(adc)
TickOn == \E t \in CtlInstants : t > tick /\ HAL_IncTick(t - tick)
Recover == \E adc \in CtlSamples : Brake_ClearError(adc)
CtlInit == Init /\ current_position = 0

CtlNext ==
    \/ ReceiveHeartbeat /\ UNCHANGED <<brake_vars, tick, fault_stop, can_vars, loop_vars, obs_vars>>
    \/ UpdateSystemHealth /\ UNCHANGED <<brake_vars, tick, fault_stop, can_vars, loop_vars, obs_vars>>
    \/ SetHealth /\ UNCHANGED <<brake_vars, tick, fault_stop, can_vars, loop_vars, obs_vars>>
    \/ SamplePosition /\ prev_health' = node_health
          /\ UNCHANGED <<node_health, last_pc_heartbeat_tick, pc_heartbeat_msg_count,
                       pc_heartbeat_received, can_vars, loop_vars, obs_vars>>
    \/ TickOn /\ prev_health' = node_health
          /\ UNCHANGED <<node_health, last_pc_heartbeat_tick, pc_heartbeat_msg_count,
                       pc_heartbeat_received, can_vars, loop_vars, obs_vars>>
    \/ Recover /\ prev_health' = node_health
          /\ UNCHANGED <<node_health, last_pc_heartbeat_tick, pc_heartbeat_msg_count,
                       pc_heartbeat_received, can_vars, loop_vars, obs_vars>>

CtlSpec == CtlInit /\ [][CtlNext]_vars

(* The position read-out: valid samples are stored by Brake_UpdatePosition *)
(* and Brake_GetPositionPercent is called on the stored position, starting *)
(* from every position Brake_Init can store.                               *)
StorePosition == \E adc \in PercentSamples : Brake_UpdatePosition(adc)

PercentNext ==
    \/ StorePosition /\ UNCHANGED <<can_vars, ctl_vars, loop_vars, obs_vars>>
    \/ Brake_GetPositionPercent /\ UNCHANGED <<can_vars, ctl_vars, loop_vars, obs_vars>>

PercentSpec == Init /\ [][PercentNext]_vars

(* The controller's polling loop: Business_Loop, the receive interrupt     *)
(* between two calls with the frame it delivers, Brake_EmergencyStop, and  *)
(* the tick moving on to the next instant of observation.  The outbound    *)
(* queue is not drained here: it keeps every message the loop queued.      *)
ReceiveMessage ==
    \E f \in LoopFrames :
        /\ rx_seq < MaxLoopFrames
        /\ CAN_Driver_RxCallback(rx_seq + 1)
        /\ rx_frames' = ((rx_seq + 1) :> f) @@ rx_frames
LoopTick == \E t \in LoopInstants : t > tick /\ HAL_IncTick(t - tick)
LoopInit == Init /\ current_position \in LoopBootPositions

LoopNext ==
    \/ Business_Loop
    \/ ReceiveMessage /\ UNCHANGED <<actuator_vars, ctl_vars, send_vars, led_vars, obs_vars>>
    \/ Brake_EmergencyStop /\ UNCHANGED <<can_vars, ctl_vars, loop_vars, obs_vars>>
    \/ LoopTick /\ UNCHANGED <<can_vars, ctl_vars, loop_vars, obs_vars>>

LoopSpec == LoopInit /\ [][LoopNext]_vars

(* The dispatch of ProcessReceivedMessage, one received frame at a time:   *)
(* heartbeats of several origins, command frames, frames with an unknown   *)
(* identifier, with the health evaluation and the tick moving on between   *)
(* them.                                                                   *)
DispatchUnknown ==
    /\ last_op' = Op("unknown", 0, TRUE)
    /\ prev_state' = state
    /\ prev_health' = node_health
    /\ UNCHANGED <<brake_vars, tick, fault_stop, node_health, last_pc_heartbeat_tick,
                   pc_heartbeat_msg_count, pc_heartbeat_received>>

DispatchHeartbeat ==
    \E node \in DispatchNodes, c \in DispatchCounts : ProcessHeartbeat(node, c)
DispatchTick == \E t \in DispatchInstants : t > tick /\ HAL_IncTick(t - tick)
DispatchInit == Init /\ current_position = 0

DispatchNext ==
    \/ DispatchHeartbeat
          /\ UNCHANGED <<brake_vars, tick, fault_stop, can_vars, loop_vars, obs_vars>>
    \/ ReceiveCommand /\ prev_health' = node_health
          /\ UNCHANGED <<node_health, last_pc_heartbeat_tick, pc_heartbeat_msg_count,
                         pc_heartbeat_received, can_vars, loop_vars, obs_vars>>
    \/ DispatchUnknown /\ UNCHANGED <<can_vars, loop_vars, obs_vars>>
    \/ UpdateSystemHealth
          /\ UNCHANGED <<brake_vars, tick, fault_stop, can_vars, loop_vars, obs_vars>>
    \/ DispatchTick /\ prev_health' = node_health
          /\ UNCHANGED <<node_health, last_pc_heartbeat_tick, pc_heartbeat_msg_count,
                         pc_heartbeat_received, can_vars, loop_vars, obs_vars>>

DispatchSpec == DispatchInit /\ [][DispatchNext]_vars

(* An operation observed over time: samples, commands, Brake_Update, the   *)
(* tick moving on to the next instant of observation, and SendTelemetry's  *)
(* call of Brake_GetTimeToEnd.  The history variables driven_since and    *)
(* reported are kept here.  Brake_Update is called at least every          *)
(* MaxUpdateInterval ticks.                                                *)
InTransit(st) == st = BRAKE_STATE_PUSHING \/ st = BRAKE_STATE_RELEASING

(* The value returned is kept in the arg field of last_op *)
ReadTimeToEnd ==
    /\ last_op' = Op("Brake_GetTimeToEnd",
                     Brake_GetTimeToEnd(state, tick, operation_start_tick,
                                        estimated_operation_time_ms), TRUE)
    /\ prev_state' = state
    /\ UNCHANGED <<brake_vars, tick, fault_stop>>

OpSample == \E adc \in OpSamples : Brake_UpdatePosition(adc)
OpCommand == \E c \in OpCommands : Brake_ProcessCommand(c)
OpTick ==
    \E t \in OpInstants :
        /\ t > tick
        /\ t <= MaxOpTick
        /\ t - last_update_tick <= MaxUpdateInterval
        /\ tick' = t
        /\ last_op' = Op("HAL_IncTick", 0, TRUE)
        /\ prev_state' = state
        /\ UNCHANGED <<brake_vars, fault_stop>>

(* The read-out kept in reported is dropped when the operation or the      *)
(* stored position changes                                                 *)
KeepReported ==
    reported' = IF /\ state' = state
                   /\ operation_start_tick' = operation_start_tick
                   /\ current_position' = current_position
                THEN reported ELSE <<>>
NoteReported ==
    reported' = IF InTransit(state)
                THEN <<[tick |-> tick, value |-> last_op'.arg]>> ELSE <<>>
OpFrame ==
    /\ driven_since' = IF InTransit(state') /\ motor_pwm' # 0
                        THEN (IF InTransit(state) /\ motor_pwm # 0
                              THEN driven_since ELSE tick')
                        ELSE 0
    /\ UNCHANGED <<invalid_run, can_vars, ctl_vars, loop_vars>>

OpInit == Init /\ current_position \in OpBootPositions

OpNext ==
    \/ OpSample /\ KeepReported /\ OpFrame /\ UNCHANGED last_update_tick
    \/ OpCommand /\ KeepReported /\ OpFrame /\ UNCHANGED last_update_tick
    \/ Brake_Update /\ KeepReported /\ OpFrame /\ last_update_tick' = tick
    \/ OpTick /\ KeepReported /\ OpFrame /\ UNCHANGED last_update_tick
    \/ ReadTimeToEnd /\ NoteReported /\ OpFrame /\ UNCHANGED last_update_tick

OpSpec == OpInit /\ [][OpNext]_vars

(* A sensor that stays out of range: Brake_UpdatePosition reads invalid    *)
(* samples only, commands arrive and Brake_Update runs in between.  The    *)
(* history variable invalid_run counts the samples rejected in a row.      *)
FaultSample ==
    \E adc \in FaultSamples :
        /\ invalid_run < MaxFaultRun
        /\ Brake_UpdatePosition(adc)
        /\ invalid_run' = invalid_run + 1
FaultCommand == \E c \in FaultCommands : Brake_ProcessCommand(c)
FaultRunInit == Init /\ current_position \in FaultBootPositions

FaultRunNext ==
    \/ FaultSample
          /\ UNCHANGED <<driven_since, reported, last_update_tick, can_vars, ctl_vars,
                         loop_vars>>
    \/ FaultCommand /\ UNCHANGED <<can_vars, ctl_vars, loop_vars, obs_vars>>
    \/ Brake_Update /\ UNCHANGED <<can_vars, ctl_vars, loop_vars, obs_vars>>

FaultRunSpec == FaultRunInit /\ [][FaultRunNext]_vars

TypeOK ==
    /\ state \in 0..4
    /\ target_position \in {POSITION_RELEASED, POSITION_PUSHED}
    /\ current_position \in 0..4095
    /\ position_error_count \in 0..(U8 - 1)
    /\ estimated_operation_time_ms \in Int
    /\ motor_pwm \in {0, MOTOR_DUTY_PUSH, MOTOR_DUTY_RELEASE}
    /\ motor_inh \in {GPIO_PIN_RESET, GPIO_PIN_SET}


(* ------------------------------------------------------------------ *)
(* Properties                                                          *)
(* ------------------------------------------------------------------ *)
MotorStopped == motor_pwm = 0 /\ motor_inh = GPIO_PIN_RESET
CommandOps == {"Brake_ProcessCommand", "Left_Brake_CMD"}
OnlyPushing == [brake_releasing |-> 0, brake_released |-> 0, brake_pushing |-> 1, brake_pushed |-> 0]
OnlyReleasing == [brake_releasing |-> 1, brake_released |-> 0, brake_pushing |-> 0, brake_pushed |-> 0]

(* C1: once the state is STOPPED, only Brake_ClearError moves it to        *)
(* another state; commands, samples and Brake_Update leave it STOPPED.     *)
C1_StoppedUntilCleared ==
    [][(state = BRAKE_STATE_STOPPED /\ state' # BRAKE_STATE_STOPPED)
         => last_op'.op = "Brake_ClearError"]_vars

(* C2: Brake_UpdatePosition forces STOPPED and stops the motor when the    *)
(* 10th consecutive sample outside 50..4000 is counted and changes the     *)
(* state at no other count; below 10 an invalid sample changes neither the *)
(* state nor the stored position; a valid sample is stored and resets the  *)
(* count to 0.  The count is the driver's 8-bit position_error_count.      *)
C2_InvalidSampleThreshold ==
    [][\A adc \in AdcInputs :
         (last_op'.op = "Brake_UpdatePosition" /\ Brake_UpdatePosition(adc)) =>
           LET sample == ADC_ReadPosition(adc, current_position) IN
           IF sample >= 50 /\ sample <= 4000
           THEN /\ position_error_count' = 0
                /\ current_position' = sample
                /\ state' = state
           ELSE /\ position_error_count' = (position_error_count + 1) % U8
                /\ current_position' = current_position
                /\ position_error_count' = 10 =>
                       (state' = BRAKE_STATE_STOPPED /\ MotorStopped')
                /\ position_error_count' # 10 =>
                       (state' = state /\ motor_pwm' = motor_pwm /\ motor_inh' = motor_inh)
      ]_vars

C2_Witness ==
    /\ last_op.op = "Brake_UpdatePosition"
    /\ position_error_count = 10
    /\ prev_state = BRAKE_STATE_PUSHING
    /\ state = BRAKE_STATE_STOPPED
    /\ MotorStopped

(* C3: after STOPPED was forced by 10 consecutive invalid samples, every   *)
(* command is rejected without any change until a recovery is performed,   *)
(* whatever samples are read in between.                                   *)
C3_FaultRejectsCommands ==
    [][(fault_stop /\ last_op'.op \in CommandOps) => UNCHANGED brake_vars]_vars

(* C4: when the sample read during Brake_ClearError is outside 50..4000,   *)
(* Brake_ClearError returns false and the state stays STOPPED.             *)
C4_ClearErrorInvalidSampleFails ==
    [][\A adc \in AdcInputs :
         (/\ last_op'.op = "Brake_ClearError"
          /\ Brake_ClearError(adc)
          /\ state = BRAKE_STATE_STOPPED
          /\ LET sample == ADC_ReadPosition(adc, current_position) IN
             sample < 50 \/ sample > 4000)
         => (last_op'.ret = FALSE /\ state' = BRAKE_STATE_STOPPED)
      ]_vars

(* C5: a Brake_Update in PUSHING or RELEASING with the target not reached  *)
(* ends in STOPPED with the motor stopped when more than 5000 ticks have   *)
(* elapsed since the operation began, and stays in transit otherwise.      *)
C5_TimeoutStrictlyAfter5000 ==
    (/\ last_op.op = "Brake_Update"
     /\ \/ prev_state = BRAKE_STATE_PUSHING /\ current_position < 3700
        \/ prev_state = BRAKE_STATE_RELEASING /\ current_position > 300)
    => IF tick - operation_start_tick > 5000
       THEN state = BRAKE_STATE_STOPPED /\ MotorStopped
       ELSE state = prev_state /\ ~MotorStopped

C5_Witness ==
    /\ last_op.op = "Brake_Update"
    /\ prev_state = BRAKE_STATE_PUSHING
    /\ current_position < 3700
    /\ operation_start_tick = 0
    /\ tick = 5001
    /\ state = BRAKE_STATE_STOPPED

(* C6: after Brake_EmergencyStop the state is STOPPED and the motor is     *)
(* stopped, whatever the state, counter and position were.                 *)
C6_EmergencyStopStops ==
    last_op.op = "Brake_EmergencyStop" => (state = BRAKE_STATE_STOPPED /\ MotorStopped)

C6_Witness ==
    /\ last_op.op = "Brake_EmergencyStop"
    /\ prev_state = BRAKE_STATE_PUSHING
    /\ position_error_count > 0
    /\ state = BRAKE_STATE_STOPPED
    /\ MotorStopped

(* C7: a command frame with brake_state = 1 dispatched in RELEASED starts  *)
(* a push (PUSHING, target 3800, start = tick, estimate 2000, only the     *)
(* pushing flag), and one with brake_state = 0 dispatched in PUSHED starts *)
(* a release likewise.                                                     *)
C7_WireCommandStartsOperation ==
    /\ (last_op = Op("Left_Brake_CMD", 1, TRUE) /\ prev_state = BRAKE_STATE_RELEASED)
       => /\ state = BRAKE_STATE_PUSHING
          /\ target_position = 3800
          /\ operation_start_tick = tick
          /\ estimated_operation_time_ms = 2000
          /\ TelemetryFlags(state) = OnlyPushing
    /\ (last_op = Op("Left_Brake_CMD", 0, TRUE) /\ prev_state = BRAKE_STATE_PUSHED)
       => /\ state = BRAKE_STATE_RELEASING
          /\ target_position = 200
          /\ operation_start_tick = tick
          /\ estimated_operation_time_ms = 2000
          /\ TelemetryFlags(state) = OnlyReleasing

(* C8: a Brake_Update in PUSHING before the timeout ends in PUSHED with    *)
(* the motor stopped exactly when the stored sample is at least 3700, one  *)
(* in RELEASING ends in RELEASED exactly when it is at most 300; otherwise *)
(* the state stays in transit.                                             *)
C8_TargetWithinTolerance ==
    (last_op.op = "Brake_Update" /\ tick - operation_start_tick <= 5000)
    => /\ prev_state = BRAKE_STATE_PUSHING =>
            IF current_position >= 3700
            THEN state = BRAKE_STATE_PUSHED /\ MotorStopped
            ELSE state = BRAKE_STATE_PUSHING /\ ~MotorStopped
       /\ prev_state = BRAKE_STATE_RELEASING =>
            IF current_position <= 300
            THEN state = BRAKE_STATE_RELEASED /\ MotorStopped
            ELSE state = BRAKE_STATE_RELEASING /\ motor_pwm # 0

C8_Witness ==
    /\ last_op.op = "Brake_Update"
    /\ prev_state = BRAKE_STATE_PUSHING
    /\ current_position = 3700
    /\ tick - operation_start_tick = 5000
    /\ state = BRAKE_STATE_PUSHED
    /\ MotorStopped

(* C9: a push command in PUSHING or PUSHED, and a release command in       *)
(* RELEASING or RELEASED, changes neither state, target, start tick nor    *)
(* estimate; and after any command, the same command again, at whatever    *)
(* tick, changes nothing.                                                  *)
C9_CommandIdempotent ==
    [][last_op'.op \in CommandOps =>
         /\ (\/ /\ last_op'.arg = AUTOMATE_LEFT_BRAKE_CMD_BRAKE_STATE_PUSH_CHOICE
                /\ state \in {BRAKE_STATE_PUSHING, BRAKE_STATE_PUSHED}
             \/ /\ last_op'.arg = AUTOMATE_LEFT_BRAKE_CMD_BRAKE_STATE_RELEASE_CHOICE
                /\ state \in {BRAKE_STATE_RELEASING, BRAKE_STATE_RELEASED})
            => UNCHANGED <<state, target_position, operation_start_tick,
                           estimated_operation_time_ms>>
         /\ \A d \in {0} \cup TickSteps :
              ProcessCommandResult(last_op'.arg, state', target_position',
                                   operation_start_tick', estimated_operation_time_ms',
                                   position_error_count', tick' + d)
                = [st |-> state', tgt |-> target_position',
                   start |-> operation_start_tick',
                   est |-> estimated_operation_time_ms']
      ]_vars

C9_Witness ==
    /\ last_op = Op("Brake_ProcessCommand", AUTOMATE_LEFT_BRAKE_CMD_BRAKE_STATE_PUSH_CHOICE, TRUE)
    /\ prev_state = BRAKE_STATE_PUSHING
    /\ state = BRAKE_STATE_PUSHING
    /\ operation_start_tick = 0
    /\ tick = 5000

(* C10: a command whose brake_state is neither 0 nor 1 changes nothing in  *)
(* any actuator state: state, target, start tick, estimate and every other *)
(* variable of the driver keep their values, so do the telemetry flags.    *)
C10_InvalidCommandNoOp ==
    [][(last_op'.op \in CommandOps /\ last_op'.arg \notin {0, 1})
         => /\ UNCHANGED <<brake_vars, tick>>
            /\ TelemetryFlags(state') = TelemetryFlags(state)]_vars

C10_Witness ==
    /\ last_op = Op("Brake_ProcessCommand", 5, TRUE)
    /\ prev_state = BRAKE_STATE_PUSHED
    /\ state = BRAKE_STATE_PUSHED

(* C11: Brake_Init and a successful Brake_ClearError classify the sample   *)
(* p they read: p <= 300 gives RELEASED, p >= 3700 gives PUSHED, anything  *)
(* between gives RELEASED; after a successful Brake_ClearError the         *)
(* invalid-sample counter is 0.                                            *)
C11_ClassifiesSampleRead ==
    /\ \E adc \in AdcInputs :
         LET p == ADC_ReadPosition(adc, 0) IN
         /\ current_position = p
         /\ state = (IF p <= 300 THEN BRAKE_STATE_RELEASED
                     ELSE IF p >= 3700 THEN BRAKE_STATE_PUSHED
                     ELSE BRAKE_STATE_RELEASED)
    /\ [][\A adc \in AdcInputs :
            (/\ last_op'.op = "Brake_ClearError"
             /\ Brake_ClearError(adc)
             /\ last_op'.ret = TRUE)
            => LET p == ADC_ReadPosition(adc, current_position) IN
               /\ state' = (IF p <= 300 THEN BRAKE_STATE_RELEASED
                            ELSE IF p >= 3700 THEN BRAKE_STATE_PUSHED
                            ELSE BRAKE_STATE_RELEASED)
               /\ position_error_count' = 0
         ]_vars

(* C12: Brake_HasError is true right after a Brake_Update that stopped an   *)
(* operation on timeout, and from a stop forced by invalid samples until a *)
(* recovery is performed.                                                  *)
C12_HasErrorCoversTimeout ==
    (\/ /\ last_op.op = "Brake_Update"
        /\ prev_state \in {BRAKE_STATE_PUSHING, BRAKE_STATE_RELEASING}
        /\ state = BRAKE_STATE_STOPPED
     \/ fault_stop)
    => Brake_HasError(position_error_count)

(* ------------------------------------------------------------------ *)
(* Properties of the CAN driver                                        *)
(* ------------------------------------------------------------------ *)
Range(seq) == {seq[i] : i \in 1..Len(seq)}
IsPrefix(a, b) == Len(a) <= Len(b) /\ \A i \in 1..Len(a) : a[i] = b[i]
Increasing(seq) == \A i, j \in 1..Len(seq) : i < j => seq[i] < seq[j]
RingIndicesOK(b) ==
    /\ 0 <= b.count /\ b.count <= 8
    /\ 0 <= b.head /\ b.head < 8
    /\ 0 <= b.tail /\ b.tail < 8
(* The messages the last call of CAN_Driver_Transmit tried, in its order *)
Attempted == hw_sent \o (IF hw_failed # 0 THEN <<hw_failed>> ELSE <<>>)

(* C13: in both ring buffers count stays within 0..8 and head and tail     *)
(* within 0..7; a successful enqueue advances head by one modulo 8, a      *)
(* dequeue advances tail by one modulo 8, a drain advances tail once per   *)
(* message taken out and head once per message put back, and nothing but a *)
(* clear moves the indices otherwise.                                      *)
C13_RingIndicesInRange ==
    /\ [](RingIndicesOK(can_rx_buffer) /\ RingIndicesOK(can_tx_buffer))
    /\ [][/\ (rx_seq' # rx_seq /\ last_op'.ret) =>
                /\ can_rx_buffer'.head = (can_rx_buffer.head + 1) % 8
                /\ can_rx_buffer'.tail = can_rx_buffer.tail
          /\ (get_pc = "advance" /\ get_pc' = "decrement") =>
                /\ can_rx_buffer'.tail = (can_rx_buffer.tail + 1) % 8
                /\ can_rx_buffer'.head = can_rx_buffer.head
          /\ (tx_seq' # tx_seq /\ last_op'.ret) =>
                /\ can_tx_buffer'.head = (can_tx_buffer.head + 1) % 8
                /\ can_tx_buffer'.tail = can_tx_buffer.tail
          /\ last_op'.op = "CAN_Driver_Transmit" =>
                /\ can_tx_buffer'.tail = (can_tx_buffer.tail + Len(Attempted')) % 8
                /\ can_tx_buffer'.head =
                       (can_tx_buffer.head + (IF hw_failed' # 0 THEN 1 ELSE 0)) % 8
          /\ (/\ last_op'.op \notin {"CAN_Driver_ClearRxBuffer", "CAN_Driver_ClearTxBuffer",
                                     "CAN_Driver_Transmit"}
              /\ ~(rx_seq' # rx_seq /\ last_op'.ret)
              /\ ~(tx_seq' # tx_seq /\ last_op'.ret)
              /\ ~(get_pc = "advance" /\ get_pc' = "decrement")) =>
                /\ can_rx_buffer'.head = can_rx_buffer.head
                /\ can_rx_buffer'.tail = can_rx_buffer.tail
                /\ can_tx_buffer'.head = can_tx_buffer.head
                /\ can_tx_buffer'.tail = can_tx_buffer.tail
       ]_vars

C13_Witness ==
    /\ can_rx_buffer.count = 8
    /\ can_rx_buffer.head = 1
    /\ can_rx_buffer.tail = 1
    /\ last_op = Op("CAN_Driver_RxCallback", 9, TRUE)

(* C14: an enqueue onto a buffer that holds 8 messages, inbound from the   *)
(* receive interrupt or outbound from CAN_Driver_Send, returns false and   *)
(* leaves head, tail, count and every slot as they were: the queued        *)
(* messages stay, the arriving one is dropped.                             *)
C14_FullQueueRejectsNewest ==
    [][/\ (rx_seq' # rx_seq /\ can_rx_buffer.count = 8) =>
             /\ last_op'.ret = FALSE
             /\ can_rx_buffer' = can_rx_buffer
             /\ last_op'.arg \notin Range(Stored(can_rx_buffer', 8))
       /\ (tx_seq' # tx_seq /\ can_tx_buffer.count = 8) =>
             /\ last_op'.ret = FALSE
             /\ can_tx_buffer' = can_tx_buffer
             /\ last_op'.arg \notin Range(Stored(can_tx_buffer', 8))
      ]_vars

C14_Witness ==
    /\ last_op = Op("CAN_Driver_RxCallback", 9, FALSE)
    /\ can_rx_buffer.count = 8
    /\ Stored(can_rx_buffer, 8) = <<1, 2, 3, 4, 5, 6, 7, 8>>

(* C15: every CAN_Driver_Get that returns true hands out the oldest frame  *)
(* whose enqueue succeeded and that was not handed out yet, whatever       *)
(* receive interrupts occur between its statements; it returns false only  *)
(* when no such frame is pending.                                          *)
C15_InboundFifo ==
    [][/\ (get_pc = "decrement" /\ get_pc' = "idle") =>
             /\ rx_pending # <<>>
             /\ last_op' = Op("CAN_Driver_Get", Head(rx_pending), TRUE)
             /\ rx_pending' = Tail(rx_pending)
       /\ (Get_CheckEmpty /\ get_pc' = "idle") =>
             /\ last_op'.ret = FALSE
             /\ rx_pending = <<>>
       /\ (rx_seq' # rx_seq /\ last_op'.ret) =>
             rx_pending' = Append(rx_pending, last_op'.arg)
      ]_vars

C15_Witness ==
    /\ last_op = Op("CAN_Driver_Get", 9, TRUE)
    /\ can_rx_buffer.tail = 1
    /\ rx_pending = <<>>

(* C16: the messages a call of CAN_Driver_Transmit tries are the oldest    *)
(* accepted messages not yet taken by the peripheral, in the order they    *)
(* were accepted: a refused message is the first one tried by the next     *)
(* call.                                                                   *)
C16_OutboundOrderWithRetry ==
    [][last_op'.op = "CAN_Driver_Transmit" => IsPrefix(Attempted', tx_pending)]_vars

(* C17: the outbound buffer holds exactly the messages CAN_Driver_Send     *)
(* accepted that the peripheral has not taken; a message the peripheral    *)
(* took is no longer in the buffer, a refused one still is, and a call of  *)
(* CAN_Driver_Transmit lowers the count by the number of messages taken.   *)
C17_DrainKeepsMessages ==
    /\ can_tx_buffer.count = Len(tx_pending)
    /\ Range(Stored(can_tx_buffer, 8)) = Range(tx_pending)
    /\ Cardinality(Range(tx_pending)) = Len(tx_pending)
    /\ Range(hw_sent) \cap Range(tx_pending) = {}
    /\ Cardinality(Range(hw_sent)) = Len(hw_sent)
    /\ hw_failed # 0 => hw_failed \in Range(Stored(can_tx_buffer, 8))

C17_Witness ==
    /\ last_op.op = "CAN_Driver_Transmit"
    /\ Len(hw_sent) = 1
    /\ hw_failed # 0
    /\ can_tx_buffer.count = 7

(* C18: with the receive interrupt running between any two statements of  *)
(* a dequeue, the inbound count equals the number of frames enqueued and   *)
(* not yet dequeued, those frames sit unaltered in the slots from the      *)
(* oldest undequeued one on, the frame being dequeued is the oldest one,   *)
(* and a frame handed out is not pending any more.                         *)
C18_InterruptSafeDequeue ==
    LET oldest == IF get_pc = "decrement" THEN (can_rx_buffer.tail + 7) % 8
                  ELSE can_rx_buffer.tail IN
    /\ can_rx_buffer.count = Len(rx_pending)
    /\ \A i \in 1..Len(rx_pending) :
          can_rx_buffer.buffer[(oldest + i - 1) % 8] = rx_pending[i]
    /\ Increasing(rx_pending)
    /\ get_pc \in {"advance", "decrement"} =>
          (rx_pending # <<>> /\ get_msg = Head(rx_pending))
    /\ (last_op.op = "CAN_Driver_Get" /\ last_op.ret) =>
          \A i \in 1..Len(rx_pending) : rx_pending[i] > last_op.arg

C18_Witness ==
    /\ get_pc = "decrement"
    /\ last_op = Op("CAN_Driver_RxCallback", 9, TRUE)
    /\ can_rx_buffer.count = 8
    /\ get_msg = 2

(* ------------------------------------------------------------------ *)
(* Properties of the controller                                        *)
(* ------------------------------------------------------------------ *)
PeerSilentFor == tick - last_pc_heartbeat_tick

(* C19: a health evaluation that finds node_health ON leaves WARNING if a  *)
(* peer heartbeat was received at least once and more than 200 ticks have  *)
(* passed since the last one, and leaves ON otherwise (never received, or  *)
(* a silence of 200 ticks or less).                                        *)
C19_PeerLossDetection ==
    (last_op.op = "UpdateSystemHealth" /\ prev_health = 1)
    => node_health = (IF pc_heartbeat_received /\ PeerSilentFor > 200 THEN 3 ELSE 1)

(* C19, amended: the same, for an evaluation made while Brake_HasError()   *)
(* is false; while it is true the evaluation leaves FAILURE.               *)
C19_PeerLossDetection_NoBrakeError ==
    (last_op.op = "UpdateSystemHealth" /\ prev_health = 1)
    => IF Brake_HasError(position_error_count)
       THEN node_health = 4
       ELSE node_health = (IF pc_heartbeat_received /\ PeerSilentFor > 200 THEN 3 ELSE 1)

C19_Witness ==
    /\ last_op.op = "UpdateSystemHealth"
    /\ prev_health = 1
    /\ node_health = 3
    /\ pc_heartbeat_received
    /\ last_pc_heartbeat_tick = 0
    /\ tick = 201
    /\ ~Brake_HasError(position_error_count)

(* C20: a health evaluation that finds node_health WARNING, made 200 ticks *)
(* or less after the last peer heartbeat was processed, leaves ON.         *)
C20_PeerLossSelfHeals ==
    (/\ last_op.op = "UpdateSystemHealth"
     /\ prev_health = 3
     /\ pc_heartbeat_received
     /\ PeerSilentFor <= 200)
    => node_health = 1

(* C20, amended: the same, for an evaluation made while Brake_HasError()   *)
(* is false; while it is true the evaluation leaves FAILURE.               *)
C20_PeerLossSelfHeals_NoBrakeError ==
    (/\ last_op.op = "UpdateSystemHealth"
     /\ prev_health = 3
     /\ pc_heartbeat_received
     /\ PeerSilentFor <= 200)
    => IF Brake_HasError(position_error_count)
       THEN node_health = 4
       ELSE node_health = 1

C20_Witness ==
    /\ last_op.op = "UpdateSystemHealth"
    /\ prev_health = 3
    /\ node_health = 1
    /\ last_pc_heartbeat_tick = 250
    /\ tick = 251
    /\ ~Brake_HasError(position_error_count)

(* C21: node_health is INIT after Controller_Init; a health evaluation     *)
(* that finds INIT while Brake_HasError() is false leaves INIT when the    *)
(* tick is 1000 or less and ON when it is more than 1000.                  *)
C21_BootSequence ==
    /\ last_op.op = "Brake_Init" => node_health = 2
    /\ (/\ last_op.op = "UpdateSystemHealth"
        /\ prev_health = 2
        /\ ~Brake_HasError(position_error_count))
       => node_health = (IF tick > 1000 THEN 1 ELSE 2)

C21_Witness ==
    /\ last_op.op = "UpdateSystemHealth"
    /\ prev_health = 2
    /\ ~Brake_HasError(position_error_count)
    /\ tick = 1001
    /\ node_health = 1

(* C22: a health evaluation made while the invalid-sample counter is 10 or *)
(* more, finding INIT, ON or WARNING, leaves FAILURE whatever the tick and *)
(* the peer's liveness are; the actuator is STOPPED then.                  *)
C22_FaultEscalation ==
    (/\ last_op.op = "UpdateSystemHealth"
     /\ position_error_count >= 10
     /\ prev_health \in {2, 1, 3})
    => (node_health = 4 /\ state = BRAKE_STATE_STOPPED)

C22_Witness ==
    /\ last_op.op = "UpdateSystemHealth"
    /\ position_error_count >= 10
    /\ prev_health = 3
    /\ pc_heartbeat_received
    /\ PeerSilentFor <= 200
    /\ node_health = 4
    /\ state = BRAKE_STATE_STOPPED

(* C23: once node_health is FAILURE, every step other than a call of       *)
(* Controller_SetHealth leaves it FAILURE: health evaluations, ticks, peer *)
(* heartbeats, valid samples and Brake_ClearError.                         *)
C23_FailureLatches ==
    [][(node_health = 4 /\ last_op'.op # "Controller_SetHealth") => node_health' = 4]_vars

C23_Witness ==
    /\ last_op.op = "UpdateSystemHealth"
    /\ prev_health = 4
    /\ node_health = 4
    /\ ~Brake_HasError(position_error_count)
    /\ state # BRAKE_STATE_STOPPED
    /\ pc_heartbeat_received
    /\ PeerSilentFor <= 200

C25_HeartbeatContent ==
    [][(last_op'.op = "Business_Loop" /\ heartbeat_sent') =>
          LET hb == last_heartbeat'[1] IN
          /\ hb.node_id = 240
          /\ \A c \in heartbeat_counts : hb.msg_count > c
          /\ heartbeat_counts = {} => hb.msg_count = 0
          /\ heartbeat_counts' = heartbeat_counts \cup {hb.msg_count}
          /\ hb.health = node_health
          /\ hb.stamp = tick % 65536
      ]_vars

C25_Witness ==
    /\ last_op.op = "Business_Loop"
    /\ heartbeat_sent
    /\ last_heartbeat[1].msg_count = 3
    /\ last_heartbeat[1].health = 1
    /\ last_heartbeat[1].stamp = 1051
    /\ heartbeat_counts = {0, 1, 2, 3}

(* C26: a call of Business_Loop emits a heartbeat exactly when the tick is *)
(* at least 50 past the last heartbeat send time and telemetry exactly     *)
(* when it is at least 100 past the last telemetry send time, and records  *)
(* the send time; two consecutive heartbeats are at least 50 ticks apart,  *)
(* two consecutive telemetry messages at least 100.                        *)
C26_PeriodicGating ==
    [][last_op'.op = "Business_Loop" =>
          /\ heartbeat_sent' <=> (tick - last_heartbeat_tick >= 50)
          /\ telemetry_sent' <=> (tick - last_telemetry_tick >= 100)
          /\ last_heartbeat_tick' = (IF heartbeat_sent' THEN tick ELSE last_heartbeat_tick)
          /\ last_telemetry_tick' = (IF telemetry_sent' THEN tick ELSE last_telemetry_tick)
          /\ (heartbeat_sent' /\ last_heartbeat # <<>>) =>
                 last_heartbeat'[1].stamp - last_heartbeat[1].stamp >= 50
          /\ (telemetry_sent' /\ last_telemetry # <<>>) =>
                 last_telemetry'[1].stamp - last_telemetry[1].stamp >= 100
          /\ ~heartbeat_sent' => UNCHANGED <<last_heartbeat, heartbeat_msg_count>>
          /\ ~telemetry_sent' => UNCHANGED <<last_telemetry, telemetry_msg_id>>
      ]_vars

C26_Witness ==
    /\ last_op.op = "Business_Loop"
    /\ tick = 99
    /\ ~heartbeat_sent
    /\ ~telemetry_sent
    /\ last_heartbeat_tick = 50
    /\ last_telemetry_tick = 0
    /\ heartbeat_msg_count = 1

(* C27: in every telemetry message at most one of the four flags is set,   *)
(* the one of the actuator state at the send, and none in STOPPED.         *)
C27_TelemetryFlagsExclusive ==
    (last_op.op = "Business_Loop" /\ telemetry_sent) =>
        LET m == last_telemetry[1] IN
        /\ m.brake_releasing + m.brake_released + m.brake_pushing + m.brake_pushed <= 1
        /\ m.brake_releasing = (IF state = BRAKE_STATE_RELEASING THEN 1 ELSE 0)
        /\ m.brake_released = (IF state = BRAKE_STATE_RELEASED THEN 1 ELSE 0)
        /\ m.brake_pushing = (IF state = BRAKE_STATE_PUSHING THEN 1 ELSE 0)
        /\ m.brake_pushed = (IF state = BRAKE_STATE_PUSHED THEN 1 ELSE 0)
        /\ state = BRAKE_STATE_STOPPED =>
             m.brake_releasing + m.brake_released + m.brake_pushing + m.brake_pushed = 0

C27_Witness ==
    /\ last_op.op = "Business_Loop"
    /\ telemetry_sent
    /\ state = BRAKE_STATE_STOPPED
    /\ last_telemetry[1].brake_released = 0
    /\ last_telemetry[1].brake_pushed = 0
    /\ last_telemetry[1].brake_releasing = 0
    /\ last_telemetry[1].brake_pushing = 0

(* ------------------------------------------------------------------ *)
(* Properties of the actuator's read-outs                              *)
(* ------------------------------------------------------------------ *)
TimeToEnd ==
    Brake_GetTimeToEnd(state, tick, operation_start_tick, estimated_operation_time_ms)

(* C28: Brake_GetTimeToEnd returns the estimate minus the time elapsed     *)
(* since the operation started, or 0 when that difference is not positive, *)
(* in PUSHING and RELEASING, and 0 in RELEASED, PUSHED and STOPPED.        *)
C28_TimeToEndIsRemainder ==
    TimeToEnd =
        (IF state \in {BRAKE_STATE_PUSHING, BRAKE_STATE_RELEASING}
            /\ U32Less(tick - operation_start_tick, estimated_operation_time_ms)
         THEN estimated_operation_time_ms - (tick - operation_start_tick)
         ELSE 0)

(* C29: the value Brake_GetTimeToEnd returns is within 0..5000 in every    *)
(* reachable state.                                                        *)
C29_TimeToEndWithin5000 == TimeToEnd \in 0..5000

(* C30: Brake_GetPositionPercent returns 0 for a stored position p <= 200, *)
(* 100 for p >= 3800 and floor((p - 200) * 100 / 3600) in between; the     *)
(* result is within 0..100 and no smaller than the result for any lower    *)
(* position.                                                               *)
C30_PercentClampedLinear ==
    last_op.op = "Brake_GetPositionPercent" =>
        LET p == last_op.arg
            r == last_op.ret
        IN  /\ p = current_position
            /\ r = (IF p <= 200 THEN 0
                    ELSE IF p >= 3800 THEN 100
                    ELSE ((p - 200) * 100) \div 3600)
            /\ r \in 0..100
            /\ \A q \in PercentSamples \cup {0, 49, 4001} :
                   q <= p => PositionPercent(q) <= r

C30_Witness ==
    /\ last_op = Op("Brake_GetPositionPercent", 3799, 99)
    /\ current_position = 3799

(* C31: every push or release operation ends: a Brake_Update called in     *)
(* PUSHING or RELEASING when more than 5000 ticks have elapsed since the   *)
(* operation began leaves the transit state (to PUSHED, RELEASED or        *)
(* STOPPED), whatever the stored position is.                              *)
C31_OperationEnds ==
    (/\ last_op.op = "Brake_Update"
     /\ InTransit(prev_state)
     /\ tick - operation_start_tick > 5000)
    => state \in {BRAKE_STATE_PUSHED, BRAKE_STATE_RELEASED, BRAKE_STATE_STOPPED}

C31_Witness ==
    /\ last_op.op = "Brake_Update"
    /\ prev_state = BRAKE_STATE_RELEASING
    /\ operation_start_tick = 5000
    /\ tick = 10001
    /\ state = BRAKE_STATE_STOPPED
    /\ MotorStopped

(* C32: after a Brake_Update in PUSHING or RELEASING with elapsed > 0 (and *)
(* no timeout), the estimate is elapsed * distance_remaining /             *)
(* distance_covered when the stored position lies a positive distance from *)
(* the start reference toward the target, and the default 2000 otherwise;  *)
(* the same in both directions of travel.                                  *)
C32_EstimateExtrapolates ==
    (/\ last_op.op = "Brake_Update"
     /\ InTransit(prev_state)
     /\ tick - operation_start_tick > 0
     /\ tick - operation_start_tick <= 5000)
    => LET elapsed == tick - operation_start_tick
           covered == IF prev_state = BRAKE_STATE_PUSHING
                      THEN current_position - 200 ELSE 3800 - current_position
           remaining == IF prev_state = BRAKE_STATE_PUSHING
                        THEN 3800 - current_position ELSE current_position - 200
       IN  IF covered > 0
           THEN estimated_operation_time_ms = (elapsed * remaining) \div covered
           ELSE estimated_operation_time_ms = 2000

(* C33: during a PUSHING or RELEASING operation in which the stored        *)
(* position does not change, a time-to-end read at a later tick is not     *)
(* larger than the one read before.                                        *)
C33_TimeToEndNonIncreasing ==
    [][(/\ last_op'.op = "Brake_GetTimeToEnd"
        /\ InTransit(state)
        /\ reported # <<>>
        /\ tick > reported[1].tick)
       => last_op'.arg <= reported[1].value]_vars

(* C34: after every Brake_Update, a resulting state RELEASED or PUSHED     *)
(* has the motor stopped and the stored estimate 0, STOPPED has the motor  *)
(* stopped, PUSHING has the motor driven in the push direction and         *)
(* RELEASING in the release direction.                                     *)
C34_UpdatePostcondition ==
    last_op.op = "Brake_Update" =>
        /\ state \in {BRAKE_STATE_RELEASED, BRAKE_STATE_PUSHED}
              => (MotorStopped /\ estimated_operation_time_ms = 0)
        /\ state = BRAKE_STATE_STOPPED => MotorStopped
        /\ state = BRAKE_STATE_PUSHING
              => (motor_pwm = MOTOR_DUTY_PUSH /\ motor_inh = GPIO_PIN_SET)
        /\ state = BRAKE_STATE_RELEASING
              => (motor_pwm = MOTOR_DUTY_RELEASE /\ motor_inh = GPIO_PIN_RESET)

(* C34 as the code has it: after every Brake_Update a resulting state      *)
(* RELEASED, PUSHED or STOPPED has the motor stopped and reads a time to   *)
(* end of 0; the stored estimate is 0 when the state at entry was          *)
(* RELEASED, PUSHED or STOPPED, and is the value last extrapolated when    *)
(* the update itself reached the target; PUSHING and RELEASING have the    *)
(* motor driven toward the target.                                         *)
C34_UpdatePostconditionByEntryState ==
    last_op.op = "Brake_Update" =>
        /\ state \in {BRAKE_STATE_RELEASED, BRAKE_STATE_PUSHED, BRAKE_STATE_STOPPED}
              => /\ MotorStopped
                 /\ Brake_GetTimeToEnd(state, tick, operation_start_tick,
                                       estimated_operation_time_ms) = 0
        /\ prev_state \in {BRAKE_STATE_RELEASED, BRAKE_STATE_PUSHED, BRAKE_STATE_STOPPED}
              => (state = prev_state /\ estimated_operation_time_ms = 0)
        /\ (InTransit(prev_state) /\ ~InTransit(state)
               /\ state # BRAKE_STATE_STOPPED /\ tick # operation_start_tick)
              => estimated_operation_time_ms =
                   UpdateOperationEstimate(prev_state, current_position, tick,
                                           operation_start_tick, 0)
        /\ state = BRAKE_STATE_PUSHING
              => (motor_pwm = MOTOR_DUTY_PUSH /\ motor_inh = GPIO_PIN_SET)
        /\ state = BRAKE_STATE_RELEASING
              => (motor_pwm = MOTOR_DUTY_RELEASE /\ motor_inh = GPIO_PIN_RESET)

C34_Witness ==
    /\ last_op.op = "Brake_Update"
    /\ prev_state = BRAKE_STATE_PUSHING
    /\ state = BRAKE_STATE_PUSHED
    /\ MotorStopped
    /\ estimated_operation_time_ms # 0

(* C35: a Brake_Update in PUSHING with the stored sample at least 3700     *)
(* ends in PUSHED, and one in RELEASING with the sample at most 300 ends   *)
(* in RELEASED, also when more than 5000 ticks have elapsed since the      *)
(* operation began.                                                        *)
C35_TimeoutOnlyBeforeTarget ==
    last_op.op = "Brake_Update" =>
        /\ (prev_state = BRAKE_STATE_PUSHING /\ current_position >= 3700)
              => state = BRAKE_STATE_PUSHED
        /\ (prev_state = BRAKE_STATE_RELEASING /\ current_position <= 300)
              => state = BRAKE_STATE_RELEASED

(* C36: a call of CAN_Driver_Transmit with k messages queued makes at most *)
(* k hardware send attempts, on the oldest messages in queue order, the    *)
(* refused one being the last attempt; when none is refused the queue is   *)
(* empty afterwards; when the peripheral refuses the first one the call    *)
(* returns after that single attempt.                                      *)
C36_TransmitTerminates ==
    [][last_op'.op = "CAN_Driver_Transmit" =>
         LET k == can_tx_buffer.count
             queued == Stored(can_tx_buffer, CAN_TX_BUFFER_SIZE)
         IN  /\ Len(Attempted') <= k
             /\ IsPrefix(Attempted', queued)
             /\ hw_failed' = 0 => RingBuffer_IsEmpty(can_tx_buffer')
             /\ (hw_failed' # 0 /\ hw_sent' = <<>>) => hw_failed' = queued[1]
      ]_vars

C36_Witness ==
    /\ last_op.op = "CAN_Driver_Transmit"
    /\ hw_sent = <<>>
    /\ hw_failed = 1
    /\ can_tx_buffer.count = CAN_TX_BUFFER_SIZE

PeerRecord == <<last_pc_heartbeat_tick, pc_heartbeat_msg_count, pc_heartbeat_received>>
DispatchOps == {"Heart_Beat_MSG", "Left_Brake_CMD", "unknown"}
PeerHeartbeat(op) == op.op = "Heart_Beat_MSG" /\ op.arg = 16

(* C37: the peer liveness record (tick last seen, counter last seen, ever  *)
(* seen) changes only when a heartbeat whose origin is 0x10 is dispatched; *)
(* a heartbeat of any other origin (0xF0 echoes included), a command frame *)
(* and a frame with an unknown identifier leave the record and the health  *)
(* value as they were.                                                     *)
C37_PeerRecordOnlyByPeerHeartbeat ==
    [][/\ PeerRecord' # PeerRecord => PeerHeartbeat(last_op')
       /\ (last_op'.op \in DispatchOps /\ ~PeerHeartbeat(last_op'))
             => (PeerRecord' = PeerRecord /\ node_health' = node_health)
       /\ PeerHeartbeat(last_op')
             => (/\ last_pc_heartbeat_tick' = tick
                 /\ pc_heartbeat_received'
                 /\ node_health' = node_health)
      ]_vars

C37_Witness ==
    /\ last_op = Op("Heart_Beat_MSG", NODE_ID_MCU, TRUE)
    /\ tick = 1001
    /\ last_pc_heartbeat_tick = 200
    /\ pc_heartbeat_msg_count = 2
    /\ pc_heartbeat_received
    /\ node_health = AUTOMATE_HEART_BEAT_MSG_HEALTH_WARNING_CHOICE

(* C38: in every reachable state the motor is driven (non-zero duty) only  *)
(* while the state is PUSHING or RELEASING; in RELEASED, PUSHED and        *)
(* STOPPED the motor is off, also between a command, a sample, a recovery  *)
(* or an emergency stop and the next Brake_Update.                         *)
C38_MotorOnlyInTransit == motor_pwm # 0 => InTransit(state)

(* C39: once 10 consecutive invalid samples have been counted and for as   *)
(* long as the samples stay invalid, Brake_HasError is true and every      *)
(* command is rejected without any change, however many further invalid    *)
(* samples follow (more than 255 included).                                *)
C39_FaultHeldWhileInvalid ==
    /\ [](invalid_run >= 10 => Brake_HasError(position_error_count))
    /\ [][(invalid_run >= 10 /\ last_op'.op \in CommandOps)
            => UNCHANGED brake_vars]_vars

(* C40: whatever commands arrive, with Brake_Update called at least every  *)
(* MaxUpdateInterval ticks, a Brake_Update never leaves the actuator in    *)
(* PUSHING or RELEASING with the motor driven when it has been so, without *)
(* interruption, for more than 5000 ticks plus one update interval: a      *)
(* command accepted in transit does not extend the time the motor may run. *)
C40_TransitBounded ==
    (last_op.op = "Brake_Update" /\ InTransit(state) /\ motor_pwm # 0)
    => tick - driven_since <= 5000 + MaxUpdateInterval
====
